---- MODULE Spec2Model ----
(***************************************************************************)
(* Health dashboard: normalizer, fitness / sleep / sentiment scorers and   *)
(* the insights aggregator.                                                *)
(*                                                                         *)
(* Python dicts are TLA+ records; a key that is absent from a dict is a    *)
(* field absent from the record's DOMAIN.  A call that raises returns      *)
(* Raised(e).  sleep hours are held in hundredths of an hour (699 = 6.99h).*)
(* Floating-point results are held as exact reals (see Num below), NaN     *)
(* included; rounding error of the float arithmetic is not modelled.       *)
(***************************************************************************)
EXTENDS Integers, Sequences, FiniteSets, TLC

VARIABLES
    raw_data,        \* the raw input handed to normalize_data in this run
    health_data,     \* what normalize_data returned / what the scorers are given
    fitness_data,    \* HealthDashboardAPI.fitness_data
    sleep_data,      \* HealthDashboardAPI.sleep_data
    sentiment_data,  \* HealthDashboardAPI.sentiment_data
    insights_data,   \* HealthDashboardAPI.insights_data
    normalized_data, \* HealthDataIntegrator.normalized_data
    pc,              \* position of the run
    clock,           \* datetime.now()
    last_call,       \* the most recent call on the shared components and its result
    held,            \* per caller: what its last successful normalize_data returned
    first_norm,      \* per raw input: the metric records its first normalize_data call gave
    last_writer,     \* the caller whose normalize_data last succeeded on the integrator
    users,           \* UserManager.users: user_id -> email of the stored User
    monitoring_active, \* RealTimeHealthMonitor.monitoring_active
    connected_users, \* RealTimeHealthMonitor.connected_users (its keys)
    monitor_threads, \* how many threads run _monitor_health_data
    handler          \* per connection: position of its start_monitoring call

user_vars == <<users>>
monitor_vars == <<monitoring_active, connected_users, monitor_threads, handler>>

vars == <<raw_data, health_data, fitness_data, sleep_data, sentiment_data,
          insights_data, normalized_data, pc, clock, last_call, held, first_norm,
          last_writer, user_vars, monitor_vars>>

----------------------------------------------------------------------------
(* Bounds of the model *)

\* longest metric series explored
MaxDays == 2
\* longest journal explored
MaxEntries == 2
\* datetime.now() advances at most this far
MaxClock == 1
\* how many user ids secrets.token_urlsafe can hand out
MaxUsers == 3
\* how many connections the socket server handles
MaxConnections == 3

----------------------------------------------------------------------------
(* Values *)

Unset == [unset |-> TRUE]
Raised(e) == [raised |-> e]
IsRaised(x) == "raised" \in DOMAIN x
IsUnset(x) == "unset" \in DOMAIN x
EmptyDict == [empty_dict |-> TRUE]
IsEmptyDict(d) == "empty_dict" \in DOMAIN d
HasKey(d, k) == k \in DOMAIN d
DropKey(d, k) == [f \in DOMAIN d \ {k} |-> d[f]]

\* dict.get(k, default)
Get(d, k, default) == IF HasKey(d, k) THEN d[k] ELSE default

----------------------------------------------------------------------------
(* Exact numbers: [a, b, c, v] stands for (a - b * sqrt(v)) / c with       *)
(* b >= 0, c > 0, v >= 0.  Every float the scorers compute from integer    *)
(* inputs has this form (the only irrational is std/mean).  NaN is the     *)
(* IEEE not-a-number that numpy returns for 0.0/0.0 and for the mean of an *)
(* empty list; every comparison with it is false.                          *)

NaN == [nan |-> TRUE]
IsNaN(x) == "nan" \in DOMAIN x

Abs(i) == IF i < 0 THEN -i ELSE i

RECURSIVE GCD(_, _)
GCD(m, n) == IF n = 0 THEN m ELSE GCD(n, m % n)

Norm(x) ==
    LET bb == IF x.v = 0 THEN 0 ELSE x.b
        vv == IF bb = 0 THEN 0 ELSE x.v
        g  == GCD(GCD(Abs(x.a), bb), x.c)
    IN [a |-> x.a \div g, b |-> bb \div g, c |-> x.c \div g, v |-> vv]

Rat(n, d) == Norm([a |-> n, b |-> 0, c |-> d, v |-> 0])
Int2Num(i) == Rat(i, 1)

\* x + y (at most one of them irrational, or both over the same root)
Add(x, y) ==
    IF IsNaN(x) \/ IsNaN(y) THEN NaN
    ELSE Norm([a |-> x.a * y.c + y.a * x.c,
               b |-> x.b * y.c + y.b * x.c,
               c |-> x.c * y.c,
               v |-> IF x.b # 0 THEN x.v ELSE y.v])

\* x * p / q for naturals p, q > 0
Scale(x, p, q) ==
    IF IsNaN(x) THEN NaN
    ELSE Norm([a |-> x.a * p, b |-> x.b * p, c |-> x.c * q, v |-> x.v])

\* x < y and x > y for a rational y; false when either is NaN
Lt(x, y) ==
    /\ ~IsNaN(x)
    /\ ~IsNaN(y)
    /\ LET L == x.a * y.c - y.a * x.c
           M == x.b * y.c
       IN L < 0 \/ (M # 0 /\ (L * L) < (M * M) * x.v)

Gt(x, y) ==
    /\ ~IsNaN(x)
    /\ ~IsNaN(y)
    /\ LET L == x.a * y.c - y.a * x.c
           M == x.b * y.c
       IN L > 0 /\ (M = 0 \/ (L * L) > (M * M) * x.v)

Ge(x, y) == ~IsNaN(x) /\ ~IsNaN(y) /\ ~Lt(x, y)
Le(x, y) == ~IsNaN(x) /\ ~IsNaN(y) /\ ~Gt(x, y)

\* Python's min(k, x) and max(k, x) with the constant first: x replaces k only
\* if x < k (x > k), so a NaN never replaces it
PyMin(k, x) == IF Lt(x, Int2Num(k)) THEN x ELSE Int2Num(k)
PyMax(k, x) == IF Gt(x, Int2Num(k)) THEN x ELSE Int2Num(k)

RECURSIVE SumSeq(_)
SumSeq(s) == IF s = <<>> THEN 0 ELSE Head(s) + SumSeq(Tail(s))

RECURSIVE SumSq(_)
SumSq(s) == IF s = <<>> THEN 0 ELSE Head(s) * Head(s) + SumSq(Tail(s))

RECURSIVE GCDSeq(_)
GCDSeq(s) == IF s = <<>> THEN 0 ELSE GCD(Head(s), GCDSeq(Tail(s)))

\* the series divided by the common divisor of its values: std/mean does not
\* change, and the products stay inside TLC's 32-bit integers
Reduced(s) ==
    LET g == GCDSeq(s)
    IN IF g = 0 THEN s ELSE [i \in DOMAIN s |-> s[i] \div g]

\* np.mean: NaN (with a warning, no exception) for an empty list
Mean(s) == IF s = <<>> THEN NaN ELSE Rat(SumSeq(s), Len(s))

\* n^2 * variance of the series (population variance, as np.std computes)
VarN2(s) == Len(s) * SumSq(s) - SumSeq(s) * SumSeq(s)

\* np.std(s) / np.mean(s) on float64: NaN for 0.0/0.0
StdOverMean(s) ==
    LET r == Reduced(s)
    IN IF s = <<>> \/ SumSeq(r) = 0 THEN NaN
       ELSE Norm([a |-> 0, b |-> 1, c |-> SumSeq(r), v |-> VarN2(r)])

\* 1.0 - z for z = sqrt(v)/c: (c - sqrt(v)) / c
OneMinus(z) ==
    IF IsNaN(z) THEN NaN
    ELSE IF z.b = 0 THEN Rat(z.c - z.a, z.c)
    ELSE Norm([a |-> z.c, b |-> z.b, c |-> z.c, v |-> z.v])

InRange0to100(x) == Ge(x, Int2Num(0)) /\ Le(x, Int2Num(100))

----------------------------------------------------------------------------
(* HealthDataIntegrator *)

\* variant whose labels are one hour stricter: a night of 6h to 7h is fair
calculate_sleep_quality_stricter(sleep_hours) ==
    IF sleep_hours >= 800 THEN "excellent"
    ELSE IF sleep_hours >= 700 THEN "good"
    ELSE IF sleep_hours >= 600 THEN "fair"
    ELSE "poor"

calculate_sleep_quality(sleep_hours) ==
    IF sleep_hours >= 700 THEN "excellent"
    ELSE IF sleep_hours >= 600 THEN "good"
    ELSE IF sleep_hours >= 500 THEN "fair"
    ELSE "poor"

\* variant with strict comparisons: a value on a threshold falls in the lower class
classify_activity_level_strict(steps) ==
    IF steps > 10000 THEN "high"
    ELSE IF steps > 5000 THEN "moderate"
    ELSE "low"

classify_activity_level(steps) ==
    IF steps >= 10000 THEN "high"
    ELSE IF steps >= 5000 THEN "moderate"
    ELSE "low"

classify_heart_rate_zone(heart_rate) ==
    IF heart_rate < 60 THEN "resting"
    ELSE IF heart_rate < 100 THEN "normal"
    ELSE IF heart_rate < 120 THEN "elevated"
    ELSE "high"

assess_sleep_adequacy(sleep_hours) ==
    IF sleep_hours >= 700 THEN "adequate"
    ELSE IF sleep_hours >= 600 THEN "borderline"
    ELSE "insufficient"

RequiredMetricFields == {"date", "steps", "heart_rate", "sleep_hours"}

\* metric[...] raises KeyError when the key is absent
MetricRaises(metric) == ~(RequiredMetricFields \subseteq DOMAIN metric)

normalized_metric(metric) ==
    [date |-> metric.date,
     physical_activity |-> [steps |-> metric.steps,
                            heart_rate |-> metric.heart_rate,
                            hrv |-> Get(metric, "hrv", 0)],
     sleep |-> [duration_hours |-> metric.sleep_hours,
                quality_score |-> calculate_sleep_quality(metric.sleep_hours)],
     derived_metrics |-> [activity_level |-> classify_activity_level(metric.steps),
                          heart_rate_zone |-> classify_heart_rate_zone(metric.heart_rate),
                          sleep_adequacy |-> assess_sleep_adequacy(metric.sleep_hours)]]

\* variant that appends the new records to the ones already stored
normalize_data_appending(self, raw, now) ==
    IF ~HasKey(raw, "user_id") \/ ~HasKey(raw, "metrics")
          \/ (\E i \in DOMAIN raw.metrics : MetricRaises(raw.metrics[i]))
    THEN [ret |-> Raised("KeyError"), self |-> self]
    ELSE LET normalized ==
                 [user_id |-> raw.user_id,
                  data_source |-> "mock_data",
                  last_updated |-> now,
                  metrics |-> (IF IsEmptyDict(self) THEN <<>> ELSE self.metrics)
                              \o [i \in DOMAIN raw.metrics |->
                                     normalized_metric(raw.metrics[i])]]
         IN [ret |-> normalized, self |-> normalized]

\* variant that returns the normalized data without storing it
normalize_data_unstored(self, raw, now) ==
    IF ~HasKey(raw, "user_id") \/ ~HasKey(raw, "metrics")
          \/ (\E i \in DOMAIN raw.metrics : MetricRaises(raw.metrics[i]))
    THEN [ret |-> Raised("KeyError"), self |-> self]
    ELSE [ret |-> [user_id |-> raw.user_id,
                   data_source |-> "mock_data",
                   last_updated |-> now,
                   metrics |-> [i \in DOMAIN raw.metrics |->
                                   normalized_metric(raw.metrics[i])]],
          self |-> self]

\* variant that stores only the first caller's result
normalize_data_keep_first(self, raw, now) ==
    IF ~HasKey(raw, "user_id") \/ ~HasKey(raw, "metrics")
          \/ (\E i \in DOMAIN raw.metrics : MetricRaises(raw.metrics[i]))
    THEN [ret |-> Raised("KeyError"), self |-> self]
    ELSE LET normalized ==
                 [user_id |-> raw.user_id,
                  data_source |-> "mock_data",
                  last_updated |-> now,
                  metrics |-> [i \in DOMAIN raw.metrics |->
                                  normalized_metric(raw.metrics[i])]]
         IN [ret |-> normalized,
             self |-> IF IsEmptyDict(self) THEN normalized ELSE self]

\* normalize_data on an integrator whose normalized_data is self: what it
\* returns (or raises) and the integrator's normalized_data afterwards
normalize_data(self, raw, now) ==
    IF ~HasKey(raw, "user_id") \/ ~HasKey(raw, "metrics")
          \/ (\E i \in DOMAIN raw.metrics : MetricRaises(raw.metrics[i]))
    THEN [ret |-> Raised("KeyError"), self |-> self]
    ELSE LET normalized ==
                 [user_id |-> raw.user_id,
                  data_source |-> "mock_data",
                  last_updated |-> now,
                  metrics |-> [i \in DOMAIN raw.metrics |->
                                  normalized_metric(raw.metrics[i])]]
         IN [ret |-> normalized, self |-> normalized]

----------------------------------------------------------------------------
(* FitnessTrackingAgent *)

activity_goals == [steps_daily |-> 10000, calories_daily |-> 500,
                   active_minutes_daily |-> 30]

\* y rational
Neg(y) == IF IsNaN(y) THEN NaN ELSE [y EXCEPT !.a = -y.a]
Sub(x, y) == Add(x, Neg(y))

RECURSIVE MaxSeq(_)
MaxSeq(s) == IF Len(s) = 1 THEN s[1]
             ELSE LET m == MaxSeq(Tail(s)) IN IF Head(s) > m THEN Head(s) ELSE m

RECURSIVE MinSeq(_)
MinSeq(s) == IF Len(s) = 1 THEN s[1]
             ELSE LET m == MinSeq(Tail(s)) IN IF Head(s) < m THEN Head(s) ELSE m

StepsOf(metrics) == [i \in DOMAIN metrics |-> metrics[i].physical_activity.steps]
HeartRatesOf(metrics) == [i \in DOMAIN metrics |-> metrics[i].physical_activity.heart_rate]

calculate_consistency_score(steps) ==
    IF Len(steps) < 2 THEN Int2Num(1)
    ELSE OneMinus(StdOverMean(steps))

calculate_improvement_rate(steps) ==
    IF Len(steps) < 2 THEN Int2Num(0)
    ELSE IF steps[1] > 0 THEN Rat(steps[Len(steps)] - steps[1], steps[1])
    ELSE Int2Num(0)

\* variant that caps the heart-rate component at 100
calculate_fitness_score_capped(steps, heart_rates) ==
    LET steps_score == PyMin(100, Scale(Mean(steps), 100, 10000))
        hr_score == PyMin(100, PyMax(0, Sub(Int2Num(100),
                                 Scale(Sub(Mean(heart_rates), Int2Num(60)), 2, 1))))
    IN Scale(Add(steps_score, hr_score), 1, 2)

calculate_fitness_score(steps, heart_rates) ==
    LET steps_score == PyMin(100, Scale(Mean(steps), 100, 10000))
        hr_score == PyMax(0, Sub(Int2Num(100),
                                 Scale(Sub(Mean(heart_rates), Int2Num(60)), 2, 1)))
    IN Scale(Add(steps_score, hr_score), 1, 2)

calculate_goal_achievement_rate(steps) ==
    IF steps = <<>> THEN Int2Num(0)
    ELSE LET Achieved(step) == step >= activity_goals.steps_daily
         IN Rat(Cardinality({i \in DOMAIN steps : Achieved(steps[i])}) * 100, Len(steps))

\* np.std(heart_rates) < 5, i.e. variance < 25; false for the NaN of an empty list
StdBelow5(heart_rates) ==
    heart_rates # <<>> /\ VarN2(heart_rates) < 25 * Len(heart_rates) * Len(heart_rates)

calculate_trends(metrics) ==
    LET steps == StepsOf(metrics)
        heart_rates == HeartRatesOf(metrics)
    IN [steps_trend |-> IF Len(steps) > 1 /\ steps[Len(steps)] > steps[1]
                        THEN "increasing" ELSE "decreasing",
        heart_rate_trend |-> IF StdBelow5(heart_rates) THEN "stable" ELSE "variable",
        consistency_score |-> calculate_consistency_score(steps),
        improvement_rate |-> calculate_improvement_rate(steps)]

\* np.max / np.min of an empty list raise ValueError
calculate_performance_metrics(metrics) ==
    LET steps == StepsOf(metrics)
        heart_rates == HeartRatesOf(metrics)
    IN IF steps = <<>> THEN Raised("ValueError")
       ELSE [average_steps |-> Mean(steps),
             max_steps |-> MaxSeq(steps),
             min_steps |-> MinSeq(steps),
             average_heart_rate |-> Mean(heart_rates),
             fitness_score |-> calculate_fitness_score(steps, heart_rates),
             goal_achievement_rate |-> calculate_goal_achievement_rate(steps)]

generate_health_insights(metrics) ==
    LET steps == StepsOf(metrics)
        heart_rates == HeartRatesOf(metrics)
        avg_steps == Mean(steps)
        avg_hr == Mean(heart_rates)
        consistency == calculate_consistency_score(steps)
    IN (IF Lt(avg_steps, Int2Num(5000))
           THEN <<"Your daily step count is significantly below recommended levels.">>
        ELSE IF Lt(avg_steps, Int2Num(8000))
           THEN <<"You're making good progress on daily steps.">>
        ELSE <<"Excellent activity level!">>)
       \o (IF Gt(avg_hr, Int2Num(80))
              THEN <<"Your resting heart rate is elevated.">>
           ELSE IF Lt(avg_hr, Int2Num(60))
              THEN <<"Your heart rate indicates good cardiovascular fitness.">>
           ELSE <<>>)
       \o (IF Lt(consistency, Rat(7, 10))
              THEN <<"Your activity levels vary significantly.">>
           ELSE <<>>)

generate_daily_recommendation(metric) ==
    LET activity_level == metric.derived_metrics.activity_level
    IN IF activity_level = "low"
          THEN "Consider taking a 30-minute walk or doing light exercises"
       ELSE IF activity_level = "moderate"
          THEN "Good activity level!"
       ELSE "Excellent activity level!"

calculate_goal_progress(metric) ==
    LET steps == metric.physical_activity.steps
    IN [steps_progress |-> PyMin(100, Rat(steps * 100, activity_goals.steps_daily)),
        goal_status |-> IF steps >= activity_goals.steps_daily
                        THEN "achieved" ELSE "in_progress"]

FitnessErrorResponse(now) ==
    [user_id |-> "unknown",
     analysis_date |-> now,
     error |-> "Analysis failed",
     fitness_recommendations |-> <<>>,
     trends |-> EmptyDict,
     performance_metrics |-> EmptyDict,
     health_insights |-> <<"Unable to analyze fitness data at this time.">>]

\* the subscripts analyze_fitness_data evaluates on one metric; any absent key
\* raises KeyError
FitnessMetricKeyError(m) ==
    \/ ~HasKey(m, "physical_activity")
    \/ ~HasKey(m.physical_activity, "steps")
    \/ ~HasKey(m.physical_activity, "heart_rate")
    \/ ~HasKey(m, "date")
    \/ ~HasKey(m, "derived_metrics")
    \/ ~HasKey(m.derived_metrics, "activity_level")

\* whether the body of the try block raises
FitnessRaises(health_data_) ==
    \/ ~HasKey(health_data_, "metrics")
    \/ \E i \in DOMAIN health_data_.metrics : FitnessMetricKeyError(health_data_.metrics[i])
    \/ ~HasKey(health_data_, "user_id")
    \/ IsRaised(calculate_performance_metrics(health_data_.metrics))

analyze_fitness_data(health_data_, now) ==
    IF FitnessRaises(health_data_) THEN FitnessErrorResponse(now)
    ELSE LET metrics == health_data_.metrics
         IN [user_id |-> health_data_.user_id,
             analysis_date |-> now,
             fitness_recommendations |->
                 [i \in DOMAIN metrics |->
                     [date |-> metrics[i].date,
                      steps |-> metrics[i].physical_activity.steps,
                      heart_rate |-> metrics[i].physical_activity.heart_rate,
                      activity_level |-> metrics[i].derived_metrics.activity_level,
                      recommendation |-> generate_daily_recommendation(metrics[i]),
                      goal_progress |-> calculate_goal_progress(metrics[i])]],
             trends |-> calculate_trends(metrics),
             performance_metrics |-> calculate_performance_metrics(metrics),
             health_insights |-> generate_health_insights(metrics)]

----------------------------------------------------------------------------
(* SleepAnalysisAgent.  Durations are integers in hundredths of an hour;   *)
(* the numbers derived from them are in hours.                             *)

sleep_goals == [optimal_duration |-> 750, minimum_duration |-> 600,
                maximum_duration |-> 900]

QualityLabels == {"excellent", "good", "fair", "poor"}

DurationsOf(sleep_entries) == [i \in DOMAIN sleep_entries |-> sleep_entries[i].sleep_hours]
QualityScoresOf(sleep_entries) == [i \in DOMAIN sleep_entries |-> sleep_entries[i].quality_score]

\* np.mean(durations) in hours
MeanHours(durations) == Scale(Mean(durations), 1, 100)

calculate_consistency(durations) ==
    IF Len(durations) < 2 THEN Int2Num(1)
    ELSE OneMinus(StdOverMean(durations))

QualityNum(score) ==
    IF score = "excellent" THEN 4
    ELSE IF score = "good" THEN 3
    ELSE IF score = "fair" THEN 2
    ELSE 1

calculate_quality_trend(quality_scores) ==
    IF Len(quality_scores) < 2 THEN "stable"
    ELSE LET first == QualityNum(quality_scores[1])
             last == QualityNum(quality_scores[Len(quality_scores)])
         IN IF last > first THEN "improving"
            ELSE IF last < first THEN "declining"
            ELSE "stable"

calculate_sleep_efficiency(durations) ==
    IF durations = <<>> THEN Int2Num(0)
    ELSE PyMin(100, Scale(Mean(durations), 100, sleep_goals.optimal_duration))

QualityPoints(score) ==
    IF score = "excellent" THEN 100
    ELSE IF score = "good" THEN 75
    ELSE IF score = "fair" THEN 50
    ELSE 25

calculate_overall_quality_score(durations, quality_scores) ==
    LET duration_score == PyMin(100, Scale(Mean(durations), 100, sleep_goals.optimal_duration))
        quality_score == Mean([i \in DOMAIN quality_scores |-> QualityPoints(quality_scores[i])])
    IN Scale(Add(duration_score, quality_score), 1, 2)

calculate_sleep_score(durations) ==
    IF durations = <<>> THEN Int2Num(0)
    ELSE LET avg_duration == MeanHours(durations)
             consistency == calculate_consistency(durations)
             duration_score ==
                 IF Ge(avg_duration, Int2Num(7)) /\ Le(avg_duration, Int2Num(9)) THEN 70
                 ELSE IF \/ Ge(avg_duration, Int2Num(6)) /\ Lt(avg_duration, Int2Num(7))
                         \/ Gt(avg_duration, Int2Num(9)) /\ Le(avg_duration, Int2Num(10))
                      THEN 50
                 ELSE 30
             consistency_score == Scale(consistency, 30, 1)
         IN Add(Int2Num(duration_score), consistency_score)

\* quality weights 1.0, 0.8, 0.6, 0.4 in tenths
QualityTenths(score) ==
    IF score = "excellent" THEN 10
    ELSE IF score = "good" THEN 8
    ELSE IF score = "fair" THEN 6
    ELSE 4

calculate_recovery_index(durations, quality_scores) ==
    IF durations = <<>> THEN Int2Num(0)
    ELSE LET duration_factor == PyMin(1, Scale(Mean(durations), 1, sleep_goals.optimal_duration))
             quality_factor ==
                 Scale(Mean([i \in DOMAIN quality_scores |-> QualityTenths(quality_scores[i])]), 1, 10)
         IN Scale(Add(duration_factor, quality_factor), 100, 2)

\* variant that sums the differences to the optimum without clamping at 0
calculate_sleep_debt_unclamped(durations) ==
    IF durations = <<>> THEN Int2Num(0)
    ELSE Rat(sleep_goals.optimal_duration * Len(durations) - SumSeq(durations), 100)

RECURSIVE DebtSum(_)
DebtSum(durations) ==
    IF durations = <<>> THEN 0
    ELSE (IF sleep_goals.optimal_duration - Head(durations) > 0
          THEN sleep_goals.optimal_duration - Head(durations) ELSE 0)
         + DebtSum(Tail(durations))

calculate_sleep_debt(durations) ==
    IF durations = <<>> THEN Int2Num(0)
    ELSE Rat(DebtSum(durations), 100)

analyze_sleep_patterns(sleep_entries) ==
    LET durations == DurationsOf(sleep_entries)
        quality_scores == QualityScoresOf(sleep_entries)
        Optimal(d) == 700 <= d /\ d <= 900
        Insufficient(d) == d < 600
        Excessive(d) == d > 900
    IN [average_duration |-> MeanHours(durations),
        duration_consistency |-> calculate_consistency(durations),
        quality_trend |-> calculate_quality_trend(quality_scores),
        sleep_efficiency |-> calculate_sleep_efficiency(durations),
        optimal_sleep_days |->
            Cardinality({i \in DOMAIN durations : Optimal(durations[i])}),
        insufficient_sleep_days |->
            Cardinality({i \in DOMAIN durations : Insufficient(durations[i])}),
        excessive_sleep_days |->
            Cardinality({i \in DOMAIN durations : Excessive(durations[i])})]

quality_distribution(quality_scores) ==
    [q \in QualityLabels |-> Cardinality({i \in DOMAIN quality_scores : quality_scores[i] = q})]

calculate_sleep_quality_metrics(sleep_entries) ==
    LET durations == DurationsOf(sleep_entries)
        quality_scores == QualityScoresOf(sleep_entries)
    IN [overall_quality_score |-> calculate_overall_quality_score(durations, quality_scores),
        quality_distribution |-> quality_distribution(quality_scores),
        sleep_score |-> calculate_sleep_score(durations),
        recovery_index |-> calculate_recovery_index(durations, quality_scores),
        sleep_debt |-> calculate_sleep_debt(durations)]

\* variant that looks at the quality label before the long-sleep test
sleep_recommendation_poor_first(entry) ==
    LET duration == entry.sleep_hours
        quality == entry.quality_score
        choice ==
            IF duration < 600
               THEN <<"Your sleep duration is insufficient.", "high">>
            ELSE IF quality = "poor"
               THEN <<"Focus on sleep quality.", "high">>
            ELSE IF duration > 900
               THEN <<"You're sleeping more than recommended.", "medium">>
            ELSE IF quality = "fair"
               THEN <<"Your sleep is adequate but could be improved.", "medium">>
            ELSE <<"Excellent sleep habits!", "low">>
    IN [date |-> entry.date,
        recommendation |-> choice[1],
        priority |-> choice[2],
        sleep_hours |-> duration,
        quality_score |-> quality]

sleep_recommendation(entry) ==
    LET duration == entry.sleep_hours
        quality == entry.quality_score
        choice ==
            IF duration < 600
               THEN <<"Your sleep duration is insufficient.", "high">>
            ELSE IF duration > 900
               THEN <<"You're sleeping more than recommended.", "medium">>
            ELSE IF quality = "poor"
               THEN <<"Focus on sleep quality.", "high">>
            ELSE IF quality = "fair"
               THEN <<"Your sleep is adequate but could be improved.", "medium">>
            ELSE <<"Excellent sleep habits!", "low">>
    IN [date |-> entry.date,
        recommendation |-> choice[1],
        priority |-> choice[2],
        sleep_hours |-> duration,
        quality_score |-> quality]

generate_sleep_recommendations(sleep_entries) ==
    [i \in DOMAIN sleep_entries |-> sleep_recommendation(sleep_entries[i])]

\* _generate_sleep_insights raises ZeroDivisionError for no entries:
\* poor_quality_days / total_days divides two ints
\* variant in which the share of poor nights is computed only for total_days > 0
SleepInsightsRaise_guarded(sleep_entries) == FALSE

SleepInsightsRaise(sleep_entries) == Len(sleep_entries) = 0

generate_sleep_insights(sleep_entries) ==
    LET durations == DurationsOf(sleep_entries)
        avg_duration == MeanHours(durations)
        consistency == calculate_consistency(durations)
        quality_dist == quality_distribution(QualityScoresOf(sleep_entries))
        total_days == Len(sleep_entries)
        poor_quality_days == quality_dist["poor"] + quality_dist["fair"]
    IN (IF Lt(avg_duration, Int2Num(6))
           THEN <<"Your average sleep duration is critically low.">>
        ELSE IF Lt(avg_duration, Int2Num(7))
           THEN <<"You're getting less sleep than recommended.">>
        ELSE IF Gt(avg_duration, Int2Num(9))
           THEN <<"You're sleeping more than the recommended amount.">>
        ELSE <<"Your sleep duration is within the healthy range.">>)
       \o (IF Lt(consistency, Rat(7, 10))
              THEN <<"Your sleep schedule is inconsistent.">>
           ELSE <<"Good sleep consistency!">>)
       \o (IF 2 * poor_quality_days > total_days
              THEN <<"Your sleep quality needs improvement.">>
           ELSE <<>>)

SleepErrorResponse(now) ==
    [user_id |-> "unknown",
     analysis_date |-> now,
     error |-> "Sleep analysis failed",
     sleep_analysis |-> <<>>,
     sleep_patterns |-> EmptyDict,
     sleep_quality_metrics |-> EmptyDict,
     recommendations |-> <<>>,
     sleep_insights |-> <<"Unable to analyze sleep data at this time.">>]

SleepMetricKeyError(m) ==
    \/ ~HasKey(m, "date")
    \/ ~HasKey(m, "sleep")
    \/ ~HasKey(m.sleep, "duration_hours")
    \/ ~HasKey(m.sleep, "quality_score")
    \/ ~HasKey(m, "derived_metrics")
    \/ ~HasKey(m.derived_metrics, "sleep_adequacy")

SleepEntriesOf(metrics) ==
    [i \in DOMAIN metrics |->
        [date |-> metrics[i].date,
         sleep_hours |-> metrics[i].sleep.duration_hours,
         quality_score |-> metrics[i].sleep.quality_score,
         adequacy |-> metrics[i].derived_metrics.sleep_adequacy]]

\* whether the body of the try block raises
SleepRaises(health_data_) ==
    \/ ~HasKey(health_data_, "metrics")
    \/ \E i \in DOMAIN health_data_.metrics : SleepMetricKeyError(health_data_.metrics[i])
    \/ ~HasKey(health_data_, "user_id")
    \/ \E i \in DOMAIN health_data_.metrics :
          health_data_.metrics[i].sleep.quality_score \notin QualityLabels
    \/ SleepInsightsRaise(SleepEntriesOf(health_data_.metrics))

analyze_sleep_data(health_data_, now) ==
    IF SleepRaises(health_data_) THEN SleepErrorResponse(now)
    ELSE LET sleep_entries == SleepEntriesOf(health_data_.metrics)
         IN [user_id |-> health_data_.user_id,
             analysis_date |-> now,
             sleep_analysis |-> sleep_entries,
             sleep_patterns |-> analyze_sleep_patterns(sleep_entries),
             sleep_quality_metrics |-> calculate_sleep_quality_metrics(sleep_entries),
             recommendations |-> generate_sleep_recommendations(sleep_entries),
             sleep_insights |-> generate_sleep_insights(sleep_entries)]

----------------------------------------------------------------------------
(* JournalingSentimentAnalysisAgent.  The text of an entry is held as what  *)
(* the agent reads from it: compound, the compound polarity VADER returns   *)
(* for it in hundredths (-100..100), and chars, its characters.             *)
(* text_length, readability_score, the per-entry insights,                  *)
(* emotional_insights and wellness_recommendations are not read by any      *)
(* other component and are left out.                                        *)

emotion_keywords ==
    [anxiety |->
        {<<"a", "n", "x", "i", "o", "u", "s">>,
         <<"w", "o", "r", "r", "i", "e", "d">>,
         <<"n", "e", "r", "v", "o", "u", "s">>,
         <<"s", "t", "r", "e", "s", "s", "e", "d">>,
         <<"o", "v", "e", "r", "w", "h", "e", "l", "m", "e", "d">>,
         <<"p", "a", "n", "i", "c">>},
     depression |->
        {<<"s", "a", "d">>,
         <<"d", "e", "p", "r", "e", "s", "s", "e", "d">>,
         <<"d", "o", "w", "n">>,
         <<"h", "o", "p", "e", "l", "e", "s", "s">>,
         <<"e", "m", "p", "t", "y">>,
         <<"l", "o", "n", "e", "l", "y">>},
     anger |->
        {<<"a", "n", "g", "r", "y">>,
         <<"f", "r", "u", "s", "t", "r", "a", "t", "e", "d">>,
         <<"i", "r", "r", "i", "t", "a", "t", "e", "d">>,
         <<"m", "a", "d">>,
         <<"f", "u", "r", "i", "o", "u", "s">>,
         <<"a", "n", "n", "o", "y", "e", "d">>},
     joy |->
        {<<"h", "a", "p", "p", "y">>,
         <<"e", "x", "c", "i", "t", "e", "d">>,
         <<"j", "o", "y", "f", "u", "l">>,
         <<"c", "h", "e", "e", "r", "f", "u", "l">>,
         <<"e", "l", "a", "t", "e", "d">>,
         <<"t", "h", "r", "i", "l", "l", "e", "d">>},
     fear |->
        {<<"s", "c", "a", "r", "e", "d">>,
         <<"a", "f", "r", "a", "i", "d">>,
         <<"t", "e", "r", "r", "i", "f", "i", "e", "d">>,
         <<"f", "e", "a", "r", "f", "u", "l">>,
         <<"w", "o", "r", "r", "i", "e", "d">>,
         <<"c", "o", "n", "c", "e", "r", "n", "e", "d">>},
     gratitude |->
        {<<"g", "r", "a", "t", "e", "f", "u", "l">>,
         <<"t", "h", "a", "n", "k", "f", "u", "l">>,
         <<"a", "p", "p", "r", "e", "c", "i", "a", "t", "e">>,
         <<"b", "l", "e", "s", "s", "e", "d">>,
         <<"f", "o", "r", "t", "u", "n", "a", "t", "e">>}]

\* the order in which the emotion_keywords dict is iterated
EmotionOrder == <<"anxiety", "depression", "anger", "joy", "fear", "gratitude">>

\* str.lower() on the characters of a text
lower(chars) ==
    LET upper_case == <<"A", "B", "C", "D", "E", "F", "G", "H", "I", "J", "K", "L", "M",
                       "N", "O", "P", "Q", "R", "S", "T", "U", "V", "W", "X", "Y", "Z">>
        lower_case == <<"a", "b", "c", "d", "e", "f", "g", "h", "i", "j", "k", "l", "m",
                       "n", "o", "p", "q", "r", "s", "t", "u", "v", "w", "x", "y", "z">>
        lower_char(ch) ==
            IF \E k \in DOMAIN upper_case : upper_case[k] = ch
            THEN lower_case[CHOOSE k \in DOMAIN upper_case : upper_case[k] = ch]
            ELSE ch
    IN [i \in DOMAIN chars |-> lower_char(chars[i])]

\* keyword in text: the keyword occurs in the text as a substring
Contains(chars, keyword) ==
    \E k \in 0 .. (Len(chars) - Len(keyword)) :
        SubSeq(chars, k + 1, k + Len(keyword)) = keyword

\* variant that matches the keywords against the text as written
detect_emotions_case_sensitive(text) ==
    LET Detected(emotion) ==
            \E keyword \in emotion_keywords[emotion] : Contains(text.chars, keyword)
    IN SelectSeq(EmotionOrder, Detected)

detect_emotions(text) ==
    LET text_lower == lower(text.chars)
        Detected(emotion) ==
            \E keyword \in emotion_keywords[emotion] : Contains(text_lower, keyword)
    IN SelectSeq(EmotionOrder, Detected)

\* variant that compares the signed compound score with the thresholds
calculate_emotional_intensity_signed(compound_score, emotions) ==
    LET compound == compound_score
        emotion_count == Len(emotions)
    IN IF compound >= 70 \/ emotion_count >= 3 THEN "high"
       ELSE IF compound >= 40 \/ emotion_count >= 2 THEN "medium"
       ELSE "low"

calculate_emotional_intensity(compound_score, emotions) ==
    LET compound == Abs(compound_score)
        emotion_count == Len(emotions)
    IN IF compound >= 70 \/ emotion_count >= 3 THEN "high"
       ELSE IF compound >= 40 \/ emotion_count >= 2 THEN "medium"
       ELSE "low"

\* variant with strict thresholds: a compound of exactly 0.05 or -0.05 is neutral
analyze_single_entry_strict(entry) ==
    LET text == entry.entry
        compound_score == text.compound
        sentiment == IF compound_score > 5 THEN "positive"
                     ELSE IF compound_score < -5 THEN "negative"
                     ELSE "neutral"
        emotions == detect_emotions(text)
    IN [date |-> entry.date,
        sentiment |-> sentiment,
        sentiment_scores |-> [compound |-> compound_score],
        emotions_detected |-> emotions,
        emotional_intensity |-> calculate_emotional_intensity(compound_score, emotions)]

analyze_single_entry(entry) ==
    LET text == entry.entry
        compound_score == text.compound
        sentiment == IF compound_score >= 5 THEN "positive"
                     ELSE IF compound_score <= -5 THEN "negative"
                     ELSE "neutral"
        emotions == detect_emotions(text)
    IN [date |-> entry.date,
        sentiment |-> sentiment,
        sentiment_scores |-> [compound |-> compound_score],
        emotions_detected |-> emotions,
        emotional_intensity |-> calculate_emotional_intensity(compound_score, emotions)]

CountSentiment(sentiments, label) ==
    Cardinality({i \in DOMAIN sentiments : sentiments[i] = label})

calculate_sentiment_distribution(sentiments) ==
    LET total == Len(sentiments)
    IN IF total = 0
       THEN [positive |-> Int2Num(0), negative |-> Int2Num(0), neutral |-> Int2Num(0)]
       ELSE [positive |-> Rat(CountSentiment(sentiments, "positive"), total),
             negative |-> Rat(CountSentiment(sentiments, "negative"), total),
             neutral |-> Rat(CountSentiment(sentiments, "neutral"), total)]

SentimentsOf(sentiment_results) ==
    [i \in DOMAIN sentiment_results |-> sentiment_results[i].sentiment]

\* variant that compares the last three entries with all entries
calculate_sentiment_trends_against_all(sentiment_results) ==
    LET n == Len(sentiment_results)
        all == SentimentsOf(sentiment_results)
        recent_sentiments == IF n > 3 THEN SubSeq(all, n - 2, n) ELSE all
        recent_positive == Rat(CountSentiment(recent_sentiments, "positive"),
                               Len(recent_sentiments))
        earlier_positive == Rat(CountSentiment(all, "positive"), Len(all))
        trend == IF Gt(recent_positive, Add(earlier_positive, Rat(1, 5))) THEN "improving"
                 ELSE IF Lt(recent_positive, Sub(earlier_positive, Rat(1, 5))) THEN "declining"
                 ELSE "stable"
    IN IF n <= 3 THEN [trend |-> "insufficient_data"]
       ELSE [trend |-> trend,
             recent_sentiment_distribution |->
                 calculate_sentiment_distribution(recent_sentiments),
             overall_sentiment_distribution |->
                 calculate_sentiment_distribution(all)]

calculate_sentiment_trends(sentiment_results) ==
    LET n == Len(sentiment_results)
        all == SentimentsOf(sentiment_results)
        recent_sentiments == IF n > 3 THEN SubSeq(all, n - 2, n) ELSE all
        earlier_sentiments == IF n > 3 THEN SubSeq(all, 1, n - 3) ELSE <<>>
        recent_positive == Rat(CountSentiment(recent_sentiments, "positive"),
                               Len(recent_sentiments))
        earlier_positive == Rat(CountSentiment(earlier_sentiments, "positive"),
                                Len(earlier_sentiments))
        trend == IF Gt(recent_positive, Add(earlier_positive, Rat(1, 5))) THEN "improving"
                 ELSE IF Lt(recent_positive, Sub(earlier_positive, Rat(1, 5))) THEN "declining"
                 ELSE "stable"
    IN IF n < 2 THEN [trend |-> "insufficient_data"]
       ELSE IF earlier_sentiments = <<>> THEN [trend |-> "insufficient_data"]
       ELSE [trend |-> trend,
             recent_sentiment_distribution |->
                 calculate_sentiment_distribution(recent_sentiments),
             overall_sentiment_distribution |->
                 calculate_sentiment_distribution(all)]

generate_summary(sentiment_results) ==
    LET total_entries == Len(sentiment_results)
        all == SentimentsOf(sentiment_results)
        positive == CountSentiment(all, "positive")
        negative == CountSentiment(all, "negative")
        neutral == CountSentiment(all, "neutral")
        high_intensity ==
            Cardinality({i \in DOMAIN sentiment_results :
                            sentiment_results[i].emotional_intensity = "high"})
    IN IF total_entries = 0 THEN [error |-> "No entries to analyze"]
       ELSE [total_entries |-> total_entries,
             sentiment_distribution |->
                 [positive_percentage |-> Rat(positive * 100, total_entries),
                  negative_percentage |-> Rat(negative * 100, total_entries),
                  neutral_percentage |-> Rat(neutral * 100, total_entries)],
             emotional_intensity |->
                 [high_intensity_percentage |-> Rat(high_intensity * 100, total_entries)],
             overall_sentiment |-> IF positive > negative THEN "positive"
                                   ELSE IF negative > positive THEN "negative"
                                   ELSE "neutral"]

SentimentErrorResponse(now) ==
    [user_id |-> "unknown",
     analysis_date |-> now,
     error |-> "Sentiment analysis failed",
     sentiment_results |-> <<>>,
     sentiment_trends |-> EmptyDict,
     summary |-> [error |-> "Analysis failed"]]

SentimentRaises(journal_entries) ==
    \E i \in DOMAIN journal_entries :
        ~HasKey(journal_entries[i], "entry") \/ ~HasKey(journal_entries[i], "date")

analyze_journaling_sentiment(journal_entries, now) ==
    IF SentimentRaises(journal_entries) THEN SentimentErrorResponse(now)
    ELSE LET sentiment_results ==
                 [i \in DOMAIN journal_entries |-> analyze_single_entry(journal_entries[i])]
         IN [user_id |-> "12345",
             analysis_date |-> now,
             sentiment_results |-> sentiment_results,
             sentiment_trends |-> calculate_sentiment_trends(sentiment_results),
             summary |-> generate_summary(sentiment_results)]

----------------------------------------------------------------------------
(* InsightsAggregator *)

generate_holistic_insights(fitness, sleep, sentiment) ==
    (IF HasKey(fitness, "performance_metrics") /\ HasKey(sleep, "sleep_patterns")
     THEN LET avg_steps == Get(fitness.performance_metrics, "average_steps", Int2Num(0))
              avg_sleep == Get(sleep.sleep_patterns, "average_duration", Int2Num(0))
          IN IF Gt(avg_steps, Int2Num(8000)) /\ Ge(avg_sleep, Int2Num(7))
                THEN <<"Excellent balance between physical activity and sleep!">>
             ELSE IF Lt(avg_steps, Int2Num(5000)) /\ Lt(avg_sleep, Int2Num(6))
                THEN <<"Both your activity level and sleep duration need attention.">>
             ELSE IF Gt(avg_steps, Int2Num(8000)) /\ Lt(avg_sleep, Int2Num(6))
                THEN <<"High activity with insufficient sleep may lead to burnout.">>
             ELSE <<>>
     ELSE <<>>)
    \o
    (IF HasKey(sentiment, "summary") /\ HasKey(fitness, "performance_metrics")
     THEN LET overall_sentiment == Get(sentiment.summary, "overall_sentiment", "neutral")
              fitness_score == Get(fitness.performance_metrics, "fitness_score", Int2Num(0))
          IN IF overall_sentiment = "positive" /\ Gt(fitness_score, Int2Num(70))
                THEN <<"Great synergy between your mental and physical well-being!">>
             ELSE IF overall_sentiment = "negative" /\ Lt(fitness_score, Int2Num(50))
                THEN <<"Your mood and physical activity both need attention.">>
             ELSE <<>>
     ELSE <<>>)
    \o
    (IF HasKey(sleep, "sleep_quality_metrics") /\ HasKey(sentiment, "summary")
     THEN LET sleep_score == Get(sleep.sleep_quality_metrics, "sleep_score", Int2Num(0))
              overall_sentiment == Get(sentiment.summary, "overall_sentiment", "neutral")
          IN IF Gt(sleep_score, Int2Num(80)) /\ overall_sentiment = "positive"
                THEN <<"Quality sleep is supporting your positive mood.">>
             ELSE IF Lt(sleep_score, Int2Num(50)) /\ overall_sentiment = "negative"
                THEN <<"Poor sleep quality may be contributing to low mood.">>
             ELSE <<>>
     ELSE <<>>)

\* _analyze_correlations and _generate_priority_recommendations subscript
\* sleep_data['sleep_quality_metrics'] under a guard that tests 'sleep_patterns':
\* KeyError when sleep_quality_metrics alone is absent
\* variant in which sleep_patterns is subscripted without a membership test too
SleepQualitySubscriptRaises_unguarded(fitness, sleep) ==
    \/ ~HasKey(sleep, "sleep_patterns")
    \/ /\ HasKey(fitness, "performance_metrics")
       /\ ~HasKey(sleep, "sleep_quality_metrics")

SleepQualitySubscriptRaises(fitness, sleep) ==
    /\ HasKey(fitness, "performance_metrics")
    /\ HasKey(sleep, "sleep_patterns")
    /\ ~HasKey(sleep, "sleep_quality_metrics")

\* variant whose strong_negative needs only one of the two scores below 50
analyze_correlations_either_low(fitness, sleep, sentiment) ==
    LET fitness_sleep ==
            IF HasKey(fitness, "performance_metrics") /\ HasKey(sleep, "sleep_patterns")
            THEN LET fitness_score == Get(fitness.performance_metrics, "fitness_score", Int2Num(0))
                     sleep_score == Get(sleep.sleep_quality_metrics, "sleep_score", Int2Num(0))
                 IN IF Gt(fitness_score, Int2Num(70)) /\ Gt(sleep_score, Int2Num(70))
                       THEN <<"strong_positive">>
                    ELSE IF Lt(fitness_score, Int2Num(50)) \/ Lt(sleep_score, Int2Num(50))
                       THEN <<"strong_negative">>
                    ELSE <<"moderate">>
            ELSE <<>>
    IN IF fitness_sleep = <<>> THEN EmptyDict
       ELSE [k \in {"fitness_sleep"} |-> [strength |-> fitness_sleep[1]]]

analyze_correlations(fitness, sleep, sentiment) ==
    LET fitness_sleep ==
            IF HasKey(fitness, "performance_metrics") /\ HasKey(sleep, "sleep_patterns")
            THEN LET fitness_score == Get(fitness.performance_metrics, "fitness_score", Int2Num(0))
                     sleep_score == Get(sleep.sleep_quality_metrics, "sleep_score", Int2Num(0))
                 IN IF Gt(fitness_score, Int2Num(70)) /\ Gt(sleep_score, Int2Num(70))
                       THEN <<"strong_positive">>
                    ELSE IF Lt(fitness_score, Int2Num(50)) /\ Lt(sleep_score, Int2Num(50))
                       THEN <<"strong_negative">>
                    ELSE <<"moderate">>
            ELSE <<>>
        mood_fitness ==
            IF HasKey(sentiment, "summary") /\ HasKey(fitness, "performance_metrics")
            THEN LET sentiment_dist == Get(sentiment.summary, "sentiment_distribution", EmptyDict)
                     positive_pct == Get(sentiment_dist, "positive_percentage", Int2Num(0))
                     fitness_score == Get(fitness.performance_metrics, "fitness_score", Int2Num(0))
                 IN IF Gt(positive_pct, Int2Num(60)) /\ Gt(fitness_score, Int2Num(70))
                       THEN <<"strong_positive">>
                    ELSE IF Lt(positive_pct, Int2Num(40)) /\ Lt(fitness_score, Int2Num(50))
                       THEN <<"strong_negative">>
                    ELSE <<>>
            ELSE <<>>
        keys == (IF fitness_sleep # <<>> THEN {"fitness_sleep"} ELSE {})
                \cup (IF mood_fitness # <<>> THEN {"mood_fitness"} ELSE {})
    IN IF keys = {} THEN EmptyDict
       ELSE [k \in keys |->
                [strength |-> IF k = "fitness_sleep" THEN fitness_sleep[1] ELSE mood_fitness[1]]]

\* variant that tests the sleep condition a second time after the others
generate_priority_recommendations_repeated(fitness, sleep, sentiment) ==
    LET sleep_entry ==
            IF HasKey(sleep, "sleep_patterns")
               /\ Lt(Get(sleep.sleep_patterns, "average_duration", Int2Num(0)), Int2Num(6))
            THEN <<[priority |-> "high", category |-> "sleep"]>> ELSE <<>>
        fitness_entry ==
            IF HasKey(fitness, "performance_metrics")
               /\ Lt(Get(fitness.performance_metrics, "fitness_score", Int2Num(0)), Int2Num(60))
            THEN <<[priority |-> "medium", category |-> "fitness"]>> ELSE <<>>
    IN sleep_entry \o fitness_entry \o sleep_entry

\* variant with an early exit: only the first condition that holds contributes
generate_priority_recommendations_first_match(fitness, sleep, sentiment) ==
    IF HasKey(sleep, "sleep_patterns")
       /\ Lt(Get(sleep.sleep_patterns, "average_duration", Int2Num(0)), Int2Num(6))
    THEN <<[priority |-> "high", category |-> "sleep"]>>
    ELSE IF HasKey(sentiment, "summary")
            /\ Gt(Get(Get(sentiment.summary, "sentiment_distribution", EmptyDict),
                      "negative_percentage", Int2Num(0)), Int2Num(60))
    THEN <<[priority |-> "high", category |-> "mental_health"]>>
    ELSE IF HasKey(fitness, "performance_metrics")
            /\ Lt(Get(fitness.performance_metrics, "fitness_score", Int2Num(0)), Int2Num(60))
    THEN <<[priority |-> "medium", category |-> "fitness"]>>
    ELSE <<>>

generate_priority_recommendations(fitness, sleep, sentiment) ==
    (IF HasKey(sleep, "sleep_patterns")
        /\ Lt(Get(sleep.sleep_patterns, "average_duration", Int2Num(0)), Int2Num(6))
     THEN <<[priority |-> "high", category |-> "sleep"]>> ELSE <<>>)
    \o
    (IF HasKey(sentiment, "summary")
        /\ Gt(Get(Get(sentiment.summary, "sentiment_distribution", EmptyDict),
                  "negative_percentage", Int2Num(0)), Int2Num(60))
     THEN <<[priority |-> "high", category |-> "mental_health"]>> ELSE <<>>)
    \o
    (IF HasKey(fitness, "performance_metrics")
        /\ Lt(Get(fitness.performance_metrics, "fitness_score", Int2Num(0)), Int2Num(60))
     THEN <<[priority |-> "medium", category |-> "fitness"]>> ELSE <<>>)
    \o
    (IF HasKey(fitness, "performance_metrics") /\ HasKey(sleep, "sleep_patterns")
        /\ Gt(Get(fitness.performance_metrics, "fitness_score", Int2Num(0)), Int2Num(80))
        /\ Gt(Get(sleep.sleep_quality_metrics, "sleep_score", Int2Num(0)), Int2Num(80))
     THEN <<[priority |-> "low", category |-> "maintenance"]>> ELSE <<>>)

\* variant that rescales the sum to the weights of the sections present
calculate_wellness_score_rescaled(fitness, sleep, sentiment) ==
    LET fitness_part ==
            IF HasKey(fitness, "performance_metrics")
            THEN Scale(Get(fitness.performance_metrics, "fitness_score", Int2Num(0)), 4, 10)
            ELSE Int2Num(0)
        sleep_part ==
            IF HasKey(sleep, "sleep_quality_metrics")
            THEN Scale(Get(sleep.sleep_quality_metrics, "sleep_score", Int2Num(0)), 35, 100)
            ELSE Int2Num(0)
        mood_part ==
            IF HasKey(sentiment, "summary")
            THEN Scale(Get(Get(sentiment.summary, "sentiment_distribution", EmptyDict),
                           "positive_percentage", Int2Num(0)), 25, 100)
            ELSE Int2Num(0)
        weight == (IF HasKey(fitness, "performance_metrics") THEN 40 ELSE 0)
                  + (IF HasKey(sleep, "sleep_quality_metrics") THEN 35 ELSE 0)
                  + (IF HasKey(sentiment, "summary") THEN 25 ELSE 0)
    IN IF weight = 0 THEN Int2Num(0)
       ELSE Scale(Add(Add(fitness_part, sleep_part), mood_part), 100, weight)

calculate_wellness_score(fitness, sleep, sentiment) ==
    LET fitness_part ==
            IF HasKey(fitness, "performance_metrics")
            THEN Scale(Get(fitness.performance_metrics, "fitness_score", Int2Num(0)), 4, 10)
            ELSE Int2Num(0)
        sleep_part ==
            IF HasKey(sleep, "sleep_quality_metrics")
            THEN Scale(Get(sleep.sleep_quality_metrics, "sleep_score", Int2Num(0)), 35, 100)
            ELSE Int2Num(0)
        mood_part ==
            IF HasKey(sentiment, "summary")
            THEN Scale(Get(Get(sentiment.summary, "sentiment_distribution", EmptyDict),
                           "positive_percentage", Int2Num(0)), 25, 100)
            ELSE Int2Num(0)
    IN Add(Add(fitness_part, sleep_part), mood_part)

\* variant that counts an increasing (decreasing) steps_trend as improving (declining)
analyze_trends_counting_steps(fitness, sleep, sentiment) ==
    LET keys == (IF HasKey(fitness, "trends") THEN {"fitness"} ELSE {})
                \cup (IF HasKey(sleep, "sleep_patterns") THEN {"sleep"} ELSE {})
                \cup (IF HasKey(sentiment, "sentiment_trends") THEN {"mood"} ELSE {})
        domain_trend(k) ==
            IF k = "fitness" THEN Get(fitness.trends, "steps_trend", "stable")
            ELSE IF k = "sleep" THEN Get(sleep.sleep_patterns, "quality_trend", "stable")
            ELSE Get(sentiment.sentiment_trends, "trend", "stable")
        improving_trends ==
            Cardinality({k \in keys : domain_trend(k) \in {"improving", "increasing"}})
        declining_trends ==
            Cardinality({k \in keys : domain_trend(k) \in {"declining", "decreasing"}})
        overall == IF improving_trends > declining_trends THEN "improving"
                   ELSE IF declining_trends > improving_trends THEN "declining"
                   ELSE "stable"
    IN [k \in keys \cup {"overall"} |-> IF k = "overall" THEN overall ELSE domain_trend(k)]

analyze_trends(fitness, sleep, sentiment) ==
    LET keys == (IF HasKey(fitness, "trends") THEN {"fitness"} ELSE {})
                \cup (IF HasKey(sleep, "sleep_patterns") THEN {"sleep"} ELSE {})
                \cup (IF HasKey(sentiment, "sentiment_trends") THEN {"mood"} ELSE {})
        domain_trend(k) ==
            IF k = "fitness" THEN Get(fitness.trends, "steps_trend", "stable")
            ELSE IF k = "sleep" THEN Get(sleep.sleep_patterns, "quality_trend", "stable")
            ELSE Get(sentiment.sentiment_trends, "trend", "stable")
        improving_trends == Cardinality({k \in keys : domain_trend(k) = "improving"})
        declining_trends == Cardinality({k \in keys : domain_trend(k) = "declining"})
        overall == IF improving_trends > declining_trends THEN "improving"
                   ELSE IF declining_trends > improving_trends THEN "declining"
                   ELSE "stable"
    IN [k \in keys \cup {"overall"} |-> IF k = "overall" THEN overall ELSE domain_trend(k)]

\* 'week' is the integer 1 in the first phase; it is held as a string like the others
generate_action_plan ==
    <<[week |-> "1", focus |-> "Foundation"],
      [week |-> "2-4", focus |-> "Building Habits"],
      [week |-> "2+ months", focus |-> "Optimization"]>>

\* variant whose error response carries the three-phase plan
AggregatorErrorResponse_with_plan(now) ==
    [user_id |-> "unknown",
     analysis_date |-> now,
     error |-> "Insights aggregation failed",
     holistic_insights |-> <<>>,
     correlation_analysis |-> EmptyDict,
     priority_recommendations |-> <<>>,
     wellness_score |-> Int2Num(0),
     trend_analysis |-> EmptyDict,
     action_plan |-> generate_action_plan]

AggregatorErrorResponse(now) ==
    [user_id |-> "unknown",
     analysis_date |-> now,
     error |-> "Insights aggregation failed",
     holistic_insights |-> <<>>,
     correlation_analysis |-> EmptyDict,
     priority_recommendations |-> <<>>,
     wellness_score |-> Int2Num(0),
     trend_analysis |-> EmptyDict,
     action_plan |-> <<>>]

\* whether the body of the try block raises
AggregateRaises(fitness, sleep, sentiment) ==
    SleepQualitySubscriptRaises(fitness, sleep)

aggregate_insights(fitness, sleep, sentiment, now) ==
    IF AggregateRaises(fitness, sleep, sentiment) THEN AggregatorErrorResponse(now)
    ELSE [user_id |-> Get(fitness, "user_id", "unknown"),
          analysis_date |-> now,
          holistic_insights |-> generate_holistic_insights(fitness, sleep, sentiment),
          correlation_analysis |-> analyze_correlations(fitness, sleep, sentiment),
          priority_recommendations |->
              generate_priority_recommendations(fitness, sleep, sentiment),
          wellness_score |-> calculate_wellness_score(fitness, sleep, sentiment),
          trend_analysis |-> analyze_trends(fitness, sleep, sentiment),
          action_plan |-> generate_action_plan]

----------------------------------------------------------------------------
(* HealthDataIntegrator.get_metrics_summary / export_normalized_data *)

get_metrics_summary(self) ==
    IF IsEmptyDict(self) THEN EmptyDict
    ELSE IF self.metrics = <<>> THEN Raised("ZeroDivisionError")
    ELSE LET metrics == self.metrics
             levels == [i \in DOMAIN metrics |-> metrics[i].derived_metrics.activity_level]
             qualities == [i \in DOMAIN metrics |-> metrics[i].sleep.quality_score]
         IN [total_days |-> Len(metrics),
             average_steps |-> Mean(StepsOf(metrics)),
             average_heart_rate |-> Mean(HeartRatesOf(metrics)),
             average_sleep_hours |->
                 MeanHours([i \in DOMAIN metrics |-> metrics[i].sleep.duration_hours]),
             activity_distribution |->
                 [l \in {"high", "moderate", "low"} |->
                     Cardinality({i \in DOMAIN levels : levels[i] = l})],
             sleep_quality_distribution |-> quality_distribution(qualities)]

\* what json.dump writes to the file
export_normalized_data(self) == self

----------------------------------------------------------------------------
(* UserManager (user_management.py).  users maps the user_id of every      *)
(* stored user to the email of its User object.  A user_id is a fresh      *)
(* secrets.token_urlsafe(16) value: 128 random bits, taken here never to   *)
(* repeat a user_id that is stored.                                        *)

UserIds == 1 .. MaxUsers
Emails == {"ann@example.org", "bob@example.org", "cat@example.org"}

\* UserManager.__init__
UserManagerInit == users = <<>>

StoredEmails(self) == {self[i] : i \in DOMAIN self}

\* variant that stores the new user without looking for the email first
register_user_unchecked(self, email, user_id) ==
    [ret |-> [success |-> TRUE, user_id |-> user_id],
     self |-> [i \in DOMAIN self \cup {user_id} |->
                  IF i = user_id THEN email ELSE self[i]]]

register_user(self, email, user_id) ==
    IF email \in StoredEmails(self)
    THEN [ret |-> [success |-> FALSE, error |-> "User already exists"], self |-> self]
    ELSE [ret |-> [success |-> TRUE, user_id |-> user_id],
          self |-> [i \in DOMAIN self \cup {user_id} |->
                       IF i = user_id THEN email ELSE self[i]]]

delete_user_data(self, user_id) ==
    IF user_id \notin DOMAIN self
    THEN [ret |-> FALSE, self |-> self]
    ELSE [ret |-> TRUE, self |-> [i \in DOMAIN self \ {user_id} |-> self[i]]]

----------------------------------------------------------------------------
(* RealTimeHealthMonitor (advanced_dashboard.py)                           *)

Connections == 1 .. MaxConnections

\* RealTimeHealthMonitor.__init__
MonitorInit ==
    /\ monitoring_active = FALSE
    /\ connected_users = {}
    /\ monitor_threads = 0
    /\ handler = [c \in Connections |-> "idle"]

----------------------------------------------------------------------------
(* Inputs.  A date is the ordinal of its day.  Raw sleep_hours are in       *)
(* hundredths of an hour.                                                   *)

Users == {"u1", "u2"}

CoarseSteps == {0, 12000}
CoarseHeartRates == {40, 120}
CoarseSleepHours == {0, 800}

BoundarySteps == {0, 4999, 5000, 9999, 10000, 20000}
BoundaryHeartRates == {1, 59, 60, 99, 100, 119, 120, 200}
BoundarySleepHours == {0, 499, 500, 599, 600, 699, 700, 900, 1200}

Day(s, h, z) == [steps |-> s, heart_rate |-> h, sleep_hours |-> z]

CoarseDays == {Day(s, h, z) : s \in CoarseSteps, h \in CoarseHeartRates, z \in CoarseSleepHours}

\* one field at a boundary value, the other two at an ordinary day's
BoundaryDays ==
    {Day(s, 70, 750) : s \in BoundarySteps}
    \cup {Day(8000, h, 750) : h \in BoundaryHeartRates}
    \cup {Day(8000, 70, z) : z \in BoundarySleepHours}

Dated(days) ==
    [i \in DOMAIN days |->
        [date |-> i, steps |-> days[i].steps, heart_rate |-> days[i].heart_rate,
         sleep_hours |-> days[i].sleep_hours]]

CoarseSeries == {Dated(days) : days \in UNION {[1..n -> CoarseDays] : n \in 1..MaxDays}}

MetricSeries == CoarseSeries \cup {Dated(<<d>>) : d \in BoundaryDays}

\* inputs that satisfy the data model: user_id and a non-empty metrics array whose
\* metrics all carry date, steps, heart_rate and sleep_hours
ValidRawInputs == {[user_id |-> "u1", metrics |-> m] : m \in MetricSeries}


\* inputs that violate it in one place
InvalidRawInputs ==
    {[user_id |-> "u1", metrics |-> <<>>]}
    \cup {[metrics |-> m] : m \in CoarseSeries}
    \cup {[user_id |-> "u1"]}
    \cup UNION {{[user_id |-> "u1", metrics |-> [m EXCEPT ![i] = DropKey(m[i], f)]] :
                    i \in DOMAIN m, f \in RequiredMetricFields} : m \in CoarseSeries}

RawInputs == ValidRawInputs \cup InvalidRawInputs

IsValidRaw(raw) ==
    /\ HasKey(raw, "user_id")
    /\ HasKey(raw, "metrics")
    /\ raw.metrics # <<>>
    /\ \A i \in DOMAIN raw.metrics : RequiredMetricFields \subseteq DOMAIN raw.metrics[i]

Compounds == {-50, 0, 50}

JournalInputs ==
    UNION {{[i \in 1..n |-> [date |-> i, entry |-> [compound |-> cs[i], chars |-> <<>>]]] :
               cs \in [1..n -> Compounds]} : n \in 0..MaxEntries}

\* a normalized dict with one key taken away: what a caller that does not go
\* through normalize_data may hand to a scorer
MetricPaths ==
    {<<"date">>, <<"physical_activity">>, <<"physical_activity", "steps">>,
     <<"physical_activity", "heart_rate">>, <<"sleep">>, <<"sleep", "duration_hours">>,
     <<"sleep", "quality_score">>, <<"derived_metrics">>,
     <<"derived_metrics", "activity_level">>, <<"derived_metrics", "heart_rate_zone">>,
     <<"derived_metrics", "sleep_adequacy">>}

DropPath(m, p) ==
    IF Len(p) = 1 THEN DropKey(m, p[1])
    ELSE [m EXCEPT ![p[1]] = DropKey(m[p[1]], p[2])]

Malformed(hd) ==
    {DropKey(hd, "metrics"), DropKey(hd, "user_id")}
    \cup {[hd EXCEPT !.metrics[i] = DropPath(hd.metrics[i], p)] :
             i \in DOMAIN hd.metrics, p \in MetricPaths}

\* the keys of a complete report that the aggregator looks for
ReportKeys ==
    [fitness |-> {"performance_metrics", "trends"},
     sleep |-> {"sleep_patterns", "sleep_quality_metrics"},
     sentiment |-> {"summary", "sentiment_trends"}]

MissingKeys(fitness, sleep, sentiment) ==
    {<<"fitness", k>> : k \in ReportKeys.fitness \ DOMAIN fitness}
    \cup {<<"sleep", k>> : k \in ReportKeys.sleep \ DOMAIN sleep}
    \cup {<<"sentiment", k>> : k \in ReportKeys.sentiment \ DOMAIN sentiment}

----------------------------------------------------------------------------
(* One run of the pipeline: normalize, fitness, sleep, sentiment, aggregate *)
(* (HealthDashboardAPI._generate_new_data, test_system.main), with the two  *)
(* other ways the components are called: a scorer handed a dict that did    *)
(* not come from normalize_data, and the aggregator handed a report that    *)
(* lacks a key.                                                             *)

NoCall == [op |-> "none"]

Init ==
    /\ raw_data \in RawInputs
    /\ health_data = Unset
    /\ fitness_data = Unset
    /\ sleep_data = Unset
    /\ sentiment_data = Unset
    /\ insights_data = Unset
    /\ normalized_data = EmptyDict
    /\ pc = "normalize"
    /\ clock = 0
    /\ last_call = NoCall
    /\ held = [u \in Users |-> Unset]
    /\ first_norm = <<>>
    /\ last_writer = "nobody"
    /\ UserManagerInit
    /\ MonitorInit

NormalizeData ==
    /\ pc = "normalize"
    /\ LET r == normalize_data(normalized_data, raw_data, clock)
       IN /\ health_data' = r.ret
          /\ normalized_data' = r.self
          /\ pc' = IF IsRaised(r.ret) THEN "done" ELSE "fitness"
    /\ UNCHANGED <<user_vars, monitor_vars, raw_data, fitness_data, sleep_data, sentiment_data, insights_data,
                   clock, last_call, held, first_norm, last_writer>>

PassMalformed ==
    /\ pc = "fitness"
    /\ \E bad \in Malformed(health_data) : health_data' = bad
    /\ pc' = "direct"
    /\ UNCHANGED <<user_vars, monitor_vars, raw_data, fitness_data, sleep_data, sentiment_data, insights_data,
                   normalized_data, clock, last_call, held, first_norm, last_writer>>

AnalyzeFitness ==
    /\ pc \in {"fitness", "direct"}
    /\ fitness_data = Unset
    /\ fitness_data' = analyze_fitness_data(health_data, clock)
    /\ pc' = IF pc = "fitness" THEN "sleep" ELSE "direct"
    /\ UNCHANGED <<user_vars, monitor_vars, raw_data, health_data, sleep_data, sentiment_data, insights_data,
                   normalized_data, clock, last_call, held, first_norm, last_writer>>

AnalyzeSleep ==
    /\ pc \in {"sleep", "direct"}
    /\ sleep_data = Unset
    /\ sleep_data' = analyze_sleep_data(health_data, clock)
    /\ pc' = IF pc = "sleep" THEN "sentiment" ELSE "direct"
    /\ UNCHANGED <<user_vars, monitor_vars, raw_data, health_data, fitness_data, sentiment_data, insights_data,
                   normalized_data, clock, last_call, held, first_norm, last_writer>>

AnalyzeSentiment ==
    /\ pc = "sentiment"
    /\ \E journal_entries \in JournalInputs :
          sentiment_data' = analyze_journaling_sentiment(journal_entries, clock)
    /\ pc' = "aggregate"
    /\ UNCHANGED <<user_vars, monitor_vars, raw_data, health_data, fitness_data, sleep_data, insights_data,
                   normalized_data, clock, last_call, held, first_norm, last_writer>>

PassIncompleteReport ==
    /\ pc = "aggregate"
    /\ MissingKeys(fitness_data, sleep_data, sentiment_data) = {}
    /\ \/ \E k \in ReportKeys.fitness :
             /\ fitness_data' = DropKey(fitness_data, k)
             /\ UNCHANGED <<sleep_data, sentiment_data>>
       \/ \E k \in ReportKeys.sleep :
             /\ sleep_data' = DropKey(sleep_data, k)
             /\ UNCHANGED <<fitness_data, sentiment_data>>
       \/ \E k \in ReportKeys.sentiment :
             /\ sentiment_data' = DropKey(sentiment_data, k)
             /\ UNCHANGED <<fitness_data, sleep_data>>
    /\ UNCHANGED <<user_vars, monitor_vars, raw_data, health_data, insights_data, normalized_data, pc, clock,
                   last_call, held, first_norm, last_writer>>

AggregateInsights ==
    /\ pc = "aggregate"
    /\ insights_data' = aggregate_insights(fitness_data, sleep_data, sentiment_data, clock)
    /\ pc' = "done"
    /\ UNCHANGED <<user_vars, monitor_vars, raw_data, health_data, fitness_data, sleep_data, sentiment_data,
                   normalized_data, clock, last_call, held, first_norm, last_writer>>

Next ==
    \/ NormalizeData
    \/ PassMalformed
    \/ AnalyzeFitness
    \/ AnalyzeSleep
    \/ AnalyzeSentiment
    \/ PassIncompleteReport
    \/ AggregateInsights

Spec == Init /\ [][Next]_vars

----------------------------------------------------------------------------
(* Two callers on shared component instances.  One HealthDataIntegrator,    *)
(* one FitnessTrackingAgent, one SleepAnalysisAgent and one                 *)
(* InsightsAggregator serve both users; calls are synchronous, so an        *)
(* interleaving is a sequence of whole calls.  The agents and the           *)
(* aggregator assign no attribute after __init__; the integrator assigns    *)
(* normalized_data.  held, first_norm and last_writer record the history    *)
(* and are read by no call.                                                 *)

InputChoices == 1 .. 2

\* the raw inputs a caller may submit: a valid series of its own and one whose
\* metric lacks 'steps'
UserRawInput(u, k) ==
    IF k = 2
    THEN [user_id |-> u, metrics |-> <<DropKey(Dated(<<Day(0, 120, 0)>>)[1], "steps")>>]
    ELSE IF u = "u1"
         THEN [user_id |-> u, metrics |-> Dated(<<Day(12000, 40, 800)>>)]
    ELSE [user_id |-> u, metrics |-> Dated(<<Day(0, 120, 0), Day(12000, 40, 800)>>)]

\* the journal each caller has analysed
SharedJournal == <<[date |-> 1, entry |-> [compound |-> 50, chars |-> <<>>]]>>

\* the metric records of a normalize_data result
RecordOutput(ret) == IF IsRaised(ret) THEN ret ELSE [metrics |-> ret.metrics]

InitShared ==
    /\ raw_data = Unset
    /\ health_data = Unset
    /\ fitness_data = Unset
    /\ sleep_data = Unset
    /\ sentiment_data = Unset
    /\ insights_data = Unset
    /\ normalized_data = EmptyDict
    /\ pc = "shared"
    /\ clock = 0
    /\ last_call = NoCall
    /\ held = [u \in Users |-> Unset]
    /\ first_norm = [u \in Users |-> [k \in InputChoices |-> Unset]]
    /\ last_writer = "nobody"
    /\ UserManagerInit
    /\ MonitorInit

CallNormalizeData(u) ==
    \E k \in InputChoices :
        LET raw == UserRawInput(u, k)
            r == normalize_data(normalized_data, raw, clock)
        IN /\ normalized_data' = r.self
           /\ last_call' = [op |-> "normalize_data", user |-> u, arg |-> raw, choice |-> k,
                            at |-> clock, ret |-> r.ret,
                            repeated |-> ~IsUnset(first_norm[u][k])]
           /\ held' = IF IsRaised(r.ret) THEN held ELSE [held EXCEPT ![u] = r.ret]
           /\ last_writer' = IF IsRaised(r.ret) THEN last_writer ELSE u
           /\ first_norm' = IF IsUnset(first_norm[u][k])
                            THEN [first_norm EXCEPT ![u][k] = RecordOutput(r.ret)]
                            ELSE first_norm
           /\ UNCHANGED <<user_vars, monitor_vars, raw_data, health_data, fitness_data, sleep_data, sentiment_data,
                          insights_data, pc, clock>>

\* the calls below leave every attribute of every component as it is
ReadOnlyCall(call) ==
    /\ last_call' = call
    /\ UNCHANGED <<user_vars, monitor_vars, raw_data, health_data, fitness_data, sleep_data, sentiment_data,
                   insights_data, normalized_data, pc, clock, held, first_norm,
                   last_writer>>

CallAnalyzeFitness(u) ==
    /\ ~IsUnset(held[u])
    /\ ReadOnlyCall([op |-> "analyze_fitness_data", user |-> u, arg |-> held[u], at |-> clock,
                     ret |-> analyze_fitness_data(held[u], clock)])

CallAnalyzeSleep(u) ==
    /\ ~IsUnset(held[u])
    /\ ReadOnlyCall([op |-> "analyze_sleep_data", user |-> u, arg |-> held[u], at |-> clock,
                     ret |-> analyze_sleep_data(held[u], clock)])

CallAggregateInsights(u) ==
    /\ ~IsUnset(held[u])
    /\ LET reports == <<analyze_fitness_data(held[u], clock),
                        analyze_sleep_data(held[u], clock),
                        analyze_journaling_sentiment(SharedJournal, clock)>>
       IN ReadOnlyCall([op |-> "aggregate_insights", user |-> u, arg |-> reports,
                        at |-> clock,
                        ret |-> aggregate_insights(reports[1], reports[2], reports[3], clock)])

CallGetMetricsSummary(u) ==
    /\ pc = "shared"
    /\ ReadOnlyCall([op |-> "get_metrics_summary", user |-> u, at |-> clock,
                     ret |-> get_metrics_summary(normalized_data)])

CallExportNormalizedData(u) ==
    /\ pc = "shared"
    /\ ReadOnlyCall([op |-> "export_normalized_data", user |-> u, at |-> clock,
                     ret |-> export_normalized_data(normalized_data)])

\* HealthDataIntegrator(): the callers go on with a fresh integrator
NewIntegrator ==
    /\ normalized_data' = EmptyDict
    /\ held' = [u \in Users |-> Unset]
    /\ last_writer' = "nobody"
    /\ last_call' = [op |-> "HealthDataIntegrator"]
    /\ UNCHANGED <<user_vars, monitor_vars, raw_data, health_data, fitness_data, sleep_data, sentiment_data,
                   insights_data, pc, clock, first_norm>>

Tick ==
    /\ clock < MaxClock
    /\ clock' = clock + 1
    /\ UNCHANGED <<user_vars, monitor_vars, raw_data, health_data, fitness_data, sleep_data, sentiment_data,
                   insights_data, normalized_data, pc, last_call, held, first_norm,
                   last_writer>>

NextShared ==
    \/ \E u \in Users : CallNormalizeData(u)
    \/ \E u \in Users : CallAnalyzeFitness(u)
    \/ \E u \in Users : CallAnalyzeSleep(u)
    \/ \E u \in Users : CallAggregateInsights(u)
    \/ \E u \in Users : CallGetMetricsSummary(u)
    \/ \E u \in Users : CallExportNormalizedData(u)
    \/ NewIntegrator
    \/ Tick

SpecShared == InitShared /\ [][NextShared]_vars

----------------------------------------------------------------------------
(* Single calls.  Each action below is one call of one method with         *)
(* arguments of the caller's choosing; last_call holds the call and what   *)
(* it returned.  A run is one call, followed at most by calls that extend  *)
(* its argument; these also keep what the call before them returned.       *)

\* reports as the aggregator may be handed them: each section present with a
\* score around the thresholds the aggregator tests, or absent
UnitFitnessReports ==
    LET full == {[user_id |-> "u1",
                  performance_metrics |-> [fitness_score |-> Int2Num(f)],
                  trends |-> [steps_trend |-> "stable"]] : f \in {0, 59, 60, 80, 81, 100}}
    IN full \cup {DropKey(r, "performance_metrics") : r \in {x \in full :
                      x.performance_metrics.fitness_score = Int2Num(100)}}

UnitSleepReports ==
    LET full == {[user_id |-> "u1",
                  sleep_patterns |-> [average_duration |-> Rat(d, 100)],
                  sleep_quality_metrics |-> [sleep_score |-> Int2Num(q)]] :
                     d \in {599, 600}, q \in {80, 81, 100}}
        one == {x \in full : x.sleep_quality_metrics.sleep_score = Int2Num(100)}
    IN full \cup {DropKey(r, k) : r \in one, k \in {"sleep_patterns", "sleep_quality_metrics"}}

UnitSentimentReports ==
    LET full == {[user_id |-> "12345",
                  summary |-> [sentiment_distribution |->
                                  [positive_percentage |-> Int2Num(100 - n),
                                   negative_percentage |-> Int2Num(n)]],
                  sentiment_trends |-> [trend |-> "stable"]] : n \in {0, 60, 61, 100}}
    IN full \cup {DropKey(r, "summary") : r \in {x \in full :
                      x.summary.sentiment_distribution.negative_percentage = Int2Num(0)}}

\* every sequence over the values of length lo .. MaxDays
SeriesOf(values, lo) == UNION {[1..n -> values] : n \in lo..MaxDays}

UnitTexts ==
    {<<"I", " ", "f", "e", "e", "l", " ", "r", "e", "a", "l", "l", "y", " ", "a", "n",
       "x", "i", "o", "u", "s", " ", "a", "b", "o", "u", "t", " ", "t", "h", "e", " ",
       "u", "p", "c", "o", "m", "i", "n", "g", " ", "p", "r", "e", "s", "e", "n", "t",
       "a", "t", "i", "o", "n", ".", " ", "I", "t", "'", "s", " ", "o", "v", "e", "r",
       "w", "h", "e", "l", "m", "i", "n", "g", ".">>,
     <<"H", "a", "d", " ", "a", " ", "g", "r", "e", "a", "t", " ", "d", "a", "y", " ",
       "t", "o", "d", "a", "y", "!">>,
     <<"S", "A", "D", "L", "Y", " ", "I", " ", "m", "a", "d", "e", " ", "i", "t">>,
     <<"W", "o", "r", "r", "i", "e", "d">>,
     <<"H", "a", "p", "p", "y", ",", " ", "g", "r", "a", "t", "e", "f", "u", "l", ",",
       " ", "y", "e", "t", " ", "N", "e", "r", "v", "o", "u", "s">>,
     <<"s", " ", "a", " ", "d">>}

UnitCompounds == {-70, -40, -5, -4, 0, 4, 5, 40, 70}

InitUnits ==
    /\ raw_data = Unset
    /\ health_data = Unset
    /\ fitness_data = Unset
    /\ sleep_data = Unset
    /\ sentiment_data = Unset
    /\ insights_data = Unset
    /\ normalized_data = EmptyDict
    /\ pc = "units"
    /\ clock = 0
    /\ last_call = NoCall
    /\ held = [u \in Users |-> Unset]
    /\ first_norm = <<>>
    /\ last_writer = "nobody"
    /\ UserManagerInit
    /\ MonitorInit

\* a call that assigns no attribute and returns ret
UnitCall(op, arg, ret) == ReadOnlyCall([op |-> op, arg |-> arg, ret |-> ret])

UnitAggregateInsights ==
    \E f \in UnitFitnessReports, s \in UnitSleepReports, m \in UnitSentimentReports :
        /\ last_call = NoCall
        /\ UnitCall("aggregate_insights", <<f, s, m>>, aggregate_insights(f, s, m, clock))

UnitCalculateWellnessScore ==
    \E f \in UnitFitnessReports, s \in UnitSleepReports, m \in UnitSentimentReports :
        /\ last_call = NoCall
        /\ UnitCall("calculate_wellness_score", <<f, s, m>>,
                    calculate_wellness_score(f, s, m))

UnitCalculateFitnessScore ==
    \E days \in SeriesOf({0, 8000, 12000} \X {40, 60, 120}, 1)
                  \cup {<<<<8000, 70>>, <<9500, 72>>, <<8500, 75>>>>} :
        LET steps == [i \in DOMAIN days |-> days[i][1]]
            heart_rates == [i \in DOMAIN days |-> days[i][2]]
        IN /\ last_call = NoCall
           /\ UnitCall("calculate_fitness_score", <<steps, heart_rates>>,
                       calculate_fitness_score(steps, heart_rates))

UnitCalculateSleepDebt ==
    \E durations \in SeriesOf({0, 600, 749, 750, 751, 1000}, 0) :
        /\ last_call = NoCall
        /\ UnitCall("calculate_sleep_debt", durations, calculate_sleep_debt(durations))

UnitCalculateConsistencyScore ==
    \E steps \in SeriesOf({0, 5000, 10000}, 0) :
        /\ last_call = NoCall
        /\ UnitCall("calculate_consistency_score", steps, calculate_consistency_score(steps))

UnitCalculateConsistency ==
    \E durations \in SeriesOf({0, 600, 800}, 0) :
        /\ last_call = NoCall
        /\ UnitCall("calculate_consistency", durations, calculate_consistency(durations))

UnitGenerateSleepRecommendations ==
    \E days \in SeriesOf({599, 600, 900, 901} \X QualityLabels, 1) :
        LET sleep_entries == [i \in DOMAIN days |->
                                 [date |-> i, sleep_hours |-> days[i][1],
                                  quality_score |-> days[i][2]]]
        IN /\ last_call = NoCall
           /\ UnitCall("generate_sleep_recommendations", sleep_entries,
                       generate_sleep_recommendations(sleep_entries))

UnitAnalyzeSingleEntry ==
    \E chars \in UnitTexts, c \in UnitCompounds :
        LET entry == [date |-> 1, entry |-> [compound |-> c, chars |-> chars]]
        IN /\ last_call = NoCall
           /\ UnitCall("analyze_single_entry", entry, analyze_single_entry(entry))

UnitAnalyzeJournalingSentiment ==
    \E n \in 1..MaxEntries : \E cs \in [1..n -> {-100, -5, -4, 4, 5, 100}] :
        LET journal_entries ==
                [i \in 1..n |-> [date |-> i, entry |-> [compound |-> cs[i], chars |-> <<>>]]]
        IN /\ last_call = NoCall
           /\ UnitCall("analyze_journaling_sentiment", journal_entries,
                       analyze_journaling_sentiment(journal_entries, clock))

\* the caller appends a day to the series and asks again
UnitAppendDay ==
    \E d \in {0, 600, 749, 750, 751, 1000} :
        /\ last_call # NoCall
        /\ last_call.op = "calculate_sleep_debt"
        /\ Len(last_call.arg) < MaxDays
        /\ ReadOnlyCall([op |-> "calculate_sleep_debt", arg |-> Append(last_call.arg, d),
                         ret |-> calculate_sleep_debt(Append(last_call.arg, d)),
                         before |-> last_call.ret])

UnitCalculateEmotionalIntensity ==
    \E c \in UnitCompounds, n \in 0..3 :
        /\ last_call = NoCall
        /\ UnitCall("calculate_emotional_intensity", <<c, SubSeq(EmotionOrder, 1, n)>>,
                    calculate_emotional_intensity(c, SubSeq(EmotionOrder, 1, n)))

\* the same entry with a stronger polarity or one more emotion detected
UnitStrongerEntry ==
    \E c \in UnitCompounds, n \in 0..3 :
        /\ last_call # NoCall
        /\ last_call.op = "calculate_emotional_intensity"
        /\ Abs(c) >= Abs(last_call.arg[1])
        /\ n >= Len(last_call.arg[2])
        /\ ReadOnlyCall([op |-> "calculate_emotional_intensity",
                         arg |-> <<c, SubSeq(EmotionOrder, 1, n)>>,
                         ret |-> calculate_emotional_intensity(c, SubSeq(EmotionOrder, 1, n)),
                         before |-> last_call.ret])

UnitCalculateSentimentTrends ==
    \E n \in 0 .. (MaxEntries + 3) :
        \E labels \in [1..n -> {"positive", "negative", "neutral"}] :
            LET sentiment_results == [i \in 1..n |-> [sentiment |-> labels[i]]]
            IN /\ last_call = NoCall
               /\ UnitCall("calculate_sentiment_trends", sentiment_results,
                           calculate_sentiment_trends(sentiment_results))

\* the fitness report is the Fitness Scorer's (its trends computed by
\* _calculate_trends), or one whose steps_trend is written by hand, or has no trends
UnitAnalyzeTrends ==
    \E fitness \in {[trends |-> calculate_trends(
                        normalize_data(EmptyDict, UserRawInput(u, 1), clock).ret.metrics)] :
                            u \in Users}
                   \cup {[trends |-> [steps_trend |-> t]] : t \in {"improving", "declining"}}
                   \cup {[user_id |-> "u1"]},
       sleep \in {[sleep_patterns |-> [quality_trend |-> t]] :
                     t \in {"improving", "declining", "stable"}},
       sentiment \in {[sentiment_trends |-> [trend |-> t]] :
                         t \in {"improving", "declining", "stable", "insufficient_data"}} :
        /\ last_call = NoCall
        /\ UnitCall("analyze_trends", <<fitness, sleep, sentiment>>,
                    analyze_trends(fitness, sleep, sentiment))

NextUnits ==
    \/ UnitAggregateInsights
    \/ UnitCalculateWellnessScore
    \/ UnitCalculateFitnessScore
    \/ UnitCalculateSleepDebt
    \/ UnitCalculateConsistencyScore
    \/ UnitCalculateConsistency
    \/ UnitGenerateSleepRecommendations
    \/ UnitAnalyzeSingleEntry
    \/ UnitAnalyzeJournalingSentiment
    \/ UnitAppendDay
    \/ UnitCalculateEmotionalIntensity
    \/ UnitStrongerEntry
    \/ UnitCalculateSentimentTrends
    \/ UnitAnalyzeTrends

SpecUnits == InitUnits /\ [][NextUnits]_vars

----------------------------------------------------------------------------
(* HealthDashboardAPI (app.py): the constructor's data generation and the  *)
(* refresh endpoint.  pc is the position inside _generate_new_data;        *)
(* last_call records the running request and the steps it has taken.       *)

\* what the mock data file may hold; Unset is a file that does not exist
AppFiles ==
    {UserRawInput(u, k) : u \in Users, k \in InputChoices}
    \cup {[user_id |-> "u1", metrics |-> <<>>], Unset}

load_mock_data(file) ==
    IF IsUnset(file) THEN Raised("FileNotFoundError")
    ELSE IF ~HasKey(file, "user_id") \/ ~HasKey(file, "metrics")
            \/ (\E i \in DOMAIN file.metrics :
                    ~(RequiredMetricFields \subseteq DOMAIN file.metrics[i]))
         THEN Raised("ValueError")
    ELSE file

\* the two sample entries of _generate_new_data: the first clearly negative,
\* the second clearly positive
AppJournal ==
    <<[date |-> 2, entry |-> [compound |-> -50,
          chars |-> <<"I", " ", "f", "e", "e", "l", " ", "a", "n", "x", "i", "o", "u", "s">>]],
      [date |-> 1, entry |-> [compound |-> 50,
          chars |-> <<"I", "'", "m", " ", "g", "r", "a", "t", "e", "f", "u", "l">>]]>>

InitApp ==
    /\ raw_data = Unset
    /\ health_data = Unset
    /\ fitness_data = Unset
    /\ sleep_data = Unset
    /\ sentiment_data = Unset
    /\ insights_data = Unset
    /\ normalized_data = EmptyDict
    /\ pc = "app_load"
    /\ clock = 0
    /\ last_call = [op |-> "init", status |-> "running", steps |-> <<>>]
    /\ held = [u \in Users |-> Unset]
    /\ first_norm = <<>>
    /\ last_writer = "nobody"
    /\ UserManagerInit
    /\ MonitorInit

\* the request with one more step taken
Stepped(step, arg, ret) ==
    [last_call EXCEPT !.steps = Append(@, [step |-> step, arg |-> [v |-> arg], ret |-> ret])]

AppLoadMockData ==
    /\ pc = "app_load"
    /\ \E file \in AppFiles :
          LET data == load_mock_data(file)
          IN /\ raw_data' = data
             /\ pc' = IF IsRaised(data) THEN "app_failed" ELSE "app_normalize"
             /\ last_call' = Stepped("load_mock_data", file, data)
    /\ UNCHANGED <<user_vars, monitor_vars,
                   health_data, fitness_data, sleep_data, sentiment_data, insights_data,
                   normalized_data, clock, held, first_norm, last_writer>>

AppNormalizeData ==
    /\ pc = "app_normalize"
    /\ LET r == normalize_data(normalized_data, raw_data, clock)
       IN /\ health_data' = r.ret
          /\ normalized_data' = r.self
          /\ pc' = IF IsRaised(r.ret) THEN "app_failed" ELSE "app_fitness"
          /\ last_call' = Stepped("normalize_data", raw_data, r.ret)
    /\ UNCHANGED <<user_vars, monitor_vars, raw_data, fitness_data, sleep_data, sentiment_data, insights_data,
                   clock, held, first_norm, last_writer>>

AppAnalyzeFitness ==
    /\ pc = "app_fitness"
    /\ LET report == analyze_fitness_data(health_data, clock)
       IN /\ fitness_data' = report
          /\ last_call' = Stepped("analyze_fitness_data", health_data, report)
    /\ pc' = "app_sleep"
    /\ UNCHANGED <<user_vars, monitor_vars, raw_data, health_data, sleep_data, sentiment_data, insights_data,
                   normalized_data, clock, held, first_norm, last_writer>>

AppAnalyzeSleep ==
    /\ pc = "app_sleep"
    /\ LET report == analyze_sleep_data(health_data, clock)
       IN /\ sleep_data' = report
          /\ last_call' = Stepped("analyze_sleep_data", health_data, report)
    /\ pc' = "app_sentiment"
    /\ UNCHANGED <<user_vars, monitor_vars, raw_data, health_data, fitness_data, sentiment_data, insights_data,
                   normalized_data, clock, held, first_norm, last_writer>>

AppAnalyzeSentiment ==
    /\ pc = "app_sentiment"
    /\ LET report == analyze_journaling_sentiment(AppJournal, clock)
       IN /\ sentiment_data' = report
          /\ last_call' = Stepped("analyze_journaling_sentiment", AppJournal, report)
    /\ pc' = "app_aggregate"
    /\ UNCHANGED <<user_vars, monitor_vars, raw_data, health_data, fitness_data, sleep_data, insights_data,
                   normalized_data, clock, held, first_norm, last_writer>>

\* variant that aggregates as soon as the sleep report is there
AppAggregateInsights_before_sentiment ==
    /\ pc = "app_sentiment"
    /\ LET insights == aggregate_insights(fitness_data, sleep_data, sentiment_data, clock)
       IN /\ insights_data' = insights
          /\ last_call' = Stepped("aggregate_insights",
                                  <<fitness_data, sleep_data, sentiment_data>>, insights)
    /\ pc' = "app_return"
    /\ UNCHANGED <<user_vars, monitor_vars, raw_data, health_data, fitness_data, sleep_data, sentiment_data,
                   normalized_data, clock, held, first_norm, last_writer>>

AppAggregateInsights ==
    /\ pc = "app_aggregate"
    /\ LET insights == aggregate_insights(fitness_data, sleep_data, sentiment_data, clock)
       IN /\ insights_data' = insights
          /\ last_call' = Stepped("aggregate_insights",
                                  <<fitness_data, sleep_data, sentiment_data>>, insights)
    /\ pc' = "app_return"
    /\ UNCHANGED <<user_vars, monitor_vars, raw_data, health_data, fitness_data, sleep_data, sentiment_data,
                   normalized_data, clock, held, first_norm, last_writer>>

\* except Exception: _create_fallback_data()
AppCreateFallbackData ==
    /\ pc = "app_failed"
    /\ fitness_data' = [error |-> "Data generation failed"]
    /\ sleep_data' = [error |-> "Data generation failed"]
    /\ sentiment_data' = [error |-> "Data generation failed"]
    /\ insights_data' = [error |-> "Data generation failed"]
    /\ pc' = "app_return"
    /\ UNCHANGED <<user_vars, monitor_vars, raw_data, health_data, normalized_data, clock,
                   last_call, held, first_norm, last_writer>>

\* _generate_new_data has returned without raising: the constructor ends, and
\* api_refresh answers status success
AppReturn ==
    /\ pc = "app_return"
    /\ last_call' = [last_call EXCEPT !.status = "success"]
    /\ pc' = "app_idle"
    /\ UNCHANGED <<user_vars, monitor_vars, raw_data, health_data, fitness_data, sleep_data, sentiment_data, insights_data,
                   normalized_data, clock, held, first_norm, last_writer>>

ApiRefresh ==
    /\ pc = "app_idle"
    /\ clock < MaxClock
    /\ clock' = clock + 1
    /\ last_call' = [op |-> "api_refresh", status |-> "running", steps |-> <<>>]
    /\ pc' = "app_load"
    /\ UNCHANGED <<user_vars, monitor_vars, raw_data, health_data, fitness_data, sleep_data, sentiment_data,
                   insights_data, normalized_data, held, first_norm, last_writer>>

NextApp ==
    \/ AppLoadMockData
    \/ AppNormalizeData
    \/ AppAnalyzeFitness
    \/ AppAnalyzeSleep
    \/ AppAnalyzeSentiment
    \/ AppAggregateInsights
    \/ AppCreateFallbackData
    \/ AppReturn
    \/ ApiRefresh

SpecApp == InitApp /\ [][NextApp]_vars

----------------------------------------------------------------------------
(* Calls on one UserManager, one after the other.  last_call holds the     *)
(* latest call, its result and the user table it found.                    *)

InitUsers ==
    /\ raw_data = Unset
    /\ health_data = Unset
    /\ fitness_data = Unset
    /\ sleep_data = Unset
    /\ sentiment_data = Unset
    /\ insights_data = Unset
    /\ normalized_data = EmptyDict
    /\ pc = "users"
    /\ clock = 0
    /\ last_call = NoCall
    /\ held = [u \in Users |-> Unset]
    /\ first_norm = <<>>
    /\ last_writer = "nobody"
    /\ UserManagerInit
    /\ MonitorInit

RegisterUser ==
    \E email \in Emails, user_id \in UserIds \ DOMAIN users :
        LET r == register_user(users, email, user_id)
        IN /\ users' = r.self
           /\ last_call' = [op |-> "register_user", arg |-> email, ret |-> r.ret,
                            before |-> [users |-> users]]
           /\ UNCHANGED <<monitor_vars, raw_data, health_data, fitness_data, sleep_data, sentiment_data,
                   insights_data, normalized_data, pc, clock, held, first_norm, last_writer>>

DeleteUserData ==
    \E user_id \in UserIds :
        LET r == delete_user_data(users, user_id)
        IN /\ users' = r.self
           /\ last_call' = [op |-> "delete_user_data", arg |-> user_id,
                            ret |-> [success |-> r.ret], before |-> [users |-> users]]
           /\ UNCHANGED <<monitor_vars, raw_data, health_data, fitness_data, sleep_data, sentiment_data,
                   insights_data, normalized_data, pc, clock, held, first_norm, last_writer>>

NextUsers ==
    \/ RegisterUser
    \/ DeleteUserData

SpecUsers == InitUsers /\ [][NextUsers]_vars

----------------------------------------------------------------------------
(* RealTimeHealthMonitor under the socket server: every connection is      *)
(* handled by its own thread.  start_monitoring is four steps (the dict    *)
(* store, the test of monitoring_active, its assignment, Thread.start());  *)
(* nothing keeps another handler from running between two of them.         *)

InitMonitor ==
    /\ raw_data = Unset
    /\ health_data = Unset
    /\ fitness_data = Unset
    /\ sleep_data = Unset
    /\ sentiment_data = Unset
    /\ insights_data = Unset
    /\ normalized_data = EmptyDict
    /\ pc = "monitor"
    /\ clock = 0
    /\ last_call = NoCall
    /\ held = [u \in Users |-> Unset]
    /\ first_norm = <<>>
    /\ last_writer = "nobody"
    /\ UserManagerInit
    /\ MonitorInit

\* handle_connect: self.connected_users[user_id] = {...}
StartMonitoringStore(c) ==
    /\ handler[c] = "idle"
    /\ c \notin connected_users
    /\ connected_users' = connected_users \cup {c}
    /\ handler' = [handler EXCEPT ![c] = "test"]
    /\ UNCHANGED <<monitoring_active, monitor_threads>>
    /\ UNCHANGED <<user_vars, raw_data, health_data, fitness_data, sleep_data, sentiment_data,
                   insights_data, normalized_data, pc, clock, last_call, held, first_norm,
                   last_writer>>

\* if not self.monitoring_active:
StartMonitoringTest(c) ==
    /\ handler[c] = "test"
    /\ handler' = [handler EXCEPT ![c] = IF monitoring_active THEN "idle" ELSE "assign"]
    /\ UNCHANGED <<monitoring_active, connected_users, monitor_threads>>
    /\ UNCHANGED <<user_vars, raw_data, health_data, fitness_data, sleep_data, sentiment_data,
                   insights_data, normalized_data, pc, clock, last_call, held, first_norm,
                   last_writer>>

\* self.monitoring_active = True
StartMonitoringAssign(c) ==
    /\ handler[c] = "assign"
    /\ monitoring_active' = TRUE
    /\ handler' = [handler EXCEPT ![c] = "start"]
    /\ UNCHANGED <<connected_users, monitor_threads>>
    /\ UNCHANGED <<user_vars, raw_data, health_data, fitness_data, sleep_data, sentiment_data,
                   insights_data, normalized_data, pc, clock, last_call, held, first_norm,
                   last_writer>>

\* threading.Thread(target=self._monitor_health_data, daemon=True).start()
StartMonitoringThread(c) ==
    /\ handler[c] = "start"
    /\ monitor_threads' = monitor_threads + 1
    /\ handler' = [handler EXCEPT ![c] = "idle"]
    /\ UNCHANGED <<monitoring_active, connected_users>>
    /\ UNCHANGED <<user_vars, raw_data, health_data, fitness_data, sleep_data, sentiment_data,
                   insights_data, normalized_data, pc, clock, last_call, held, first_norm,
                   last_writer>>

\* handle_disconnect of a connection whose handle_connect has returned
StopMonitoring(c) ==
    /\ handler[c] = "idle"
    /\ c \in connected_users
    /\ connected_users' = connected_users \ {c}
    /\ UNCHANGED <<monitoring_active, monitor_threads, handler>>
    /\ UNCHANGED <<user_vars, raw_data, health_data, fitness_data, sleep_data, sentiment_data,
                   insights_data, normalized_data, pc, clock, last_call, held, first_norm,
                   last_writer>>

NextMonitor ==
    \E c \in Connections :
        \/ StartMonitoringStore(c)
        \/ StartMonitoringTest(c)
        \/ StartMonitoringAssign(c)
        \/ StartMonitoringThread(c)
        \/ StopMonitoring(c)

SpecMonitor == InitMonitor /\ [][NextMonitor]_vars

----------------------------------------------------------------------------
(* Properties of the pipeline run (specification Spec) *)

\* the scorers were given what normalize_data returned for a valid input
ScoredValidRecords ==
    /\ pc \in {"sleep", "sentiment", "aggregate", "done"}
    /\ IsValidRaw(raw_data)

\* C1: for every non-empty series of normalized records with steps >= 0 and
\* heart_rate > 0, the fitness_score of the report analyze_fitness_data returns
\* lies in [0, 100].
C1_FitnessScoreInRange ==
    (ScoredValidRecords /\ HasKey(fitness_data, "performance_metrics"))
        => InRange0to100(fitness_data.performance_metrics.fitness_score)

\* C2: for every non-empty series of normalized records with sleep_hours >= 0,
\* the sleep_score of the report analyze_sleep_data returns lies in [0, 100],
\* whatever the spread of the durations.
C2_SleepScoreInRange ==
    (ScoredValidRecords /\ pc # "sleep" /\ HasKey(sleep_data, "sleep_quality_metrics"))
        => InRange0to100(sleep_data.sleep_quality_metrics.sleep_score)

\* C3: when the three reports the scorers produced for a valid record series and
\* a journal are all passed to aggregate_insights, the wellness_score of the
\* result lies in [0, 100].
C3_WellnessScoreInRange ==
    (/\ pc = "done"
     /\ IsValidRaw(raw_data)
     /\ ~IsUnset(insights_data)
     /\ MissingKeys(fitness_data, sleep_data, sentiment_data) = {})
        => InRange0to100(insights_data.wellness_score)

ErrorShaped(insights) ==
    /\ HasKey(insights, "error")
    /\ insights.wellness_score = Int2Num(0)
    /\ insights.holistic_insights = <<>>
    /\ insights.priority_recommendations = <<>>
    /\ insights.action_plan = <<>>

\* aggregate_insights returned, and exactly one of the keys of a complete report
\* was missing from the three reports it was given
AggregatedWithOneKeyMissing ==
    /\ pc = "done"
    /\ ~IsUnset(insights_data)
    /\ Cardinality(MissingKeys(fitness_data, sleep_data, sentiment_data)) = 1

\* C4 as stated: whenever aggregate_insights is called with three reports of
\* which one is missing a key that a complete report carries, it returns the
\* error-shaped result (error field, wellness_score 0.0, empty holistic_insights,
\* priority_recommendations and action_plan).
C4_MissingKeyGivesErrorShape ==
    AggregatedWithOneKeyMissing => ErrorShaped(insights_data)

\* C4 as amended: with one such key missing, aggregate_insights returns the
\* error-shaped result exactly when the missing key is the sleep report's
\* sleep_quality_metrics; for each of the other five keys it returns a result
\* with no error field and the fixed three-phase action_plan, from which only
\* what needs the missing section is left out.
C4_MissingKeyOutcome ==
    AggregatedWithOneKeyMissing =>
        IF MissingKeys(fitness_data, sleep_data, sentiment_data)
               = {<<"sleep", "sleep_quality_metrics">>}
        THEN ErrorShaped(insights_data)
        ELSE /\ ~HasKey(insights_data, "error")
             /\ ~IsRaised(insights_data)
             /\ Len(insights_data.action_plan) = 3
             /\ HasKey(insights_data.trend_analysis, "overall")

C4_Witness ==
    /\ AggregatedWithOneKeyMissing
    /\ MissingKeys(fitness_data, sleep_data, sentiment_data)
           = {<<"fitness", "performance_metrics">>}
    /\ ~HasKey(insights_data, "error")
    /\ Gt(insights_data.wellness_score, Int2Num(0))

HasPath(m, p) ==
    /\ HasKey(m, p[1])
    /\ Len(p) = 1 \/ HasKey(m[p[1]], p[2])

FitnessReads ==
    {<<"date">>, <<"physical_activity", "steps">>, <<"physical_activity", "heart_rate">>,
     <<"derived_metrics", "activity_level">>}

SleepReads ==
    {<<"date">>, <<"sleep", "duration_hours">>, <<"sleep", "quality_score">>,
     <<"derived_metrics", "sleep_adequacy">>}

\* the input lacks 'metrics' or 'user_id', or its metrics list is empty, or some
\* metric lacks a field the scorer reads
BadInput(hd, reads) ==
    \/ ~HasKey(hd, "metrics")
    \/ ~HasKey(hd, "user_id")
    \/ hd.metrics = <<>>
    \/ \E i \in DOMAIN hd.metrics : \E p \in reads : ~HasPath(hd.metrics[i], p)

IsFitnessErrorReport(r) ==
    /\ HasKey(r, "error")
    /\ r.fitness_recommendations = <<>>
    /\ r.trends = EmptyDict
    /\ r.performance_metrics = EmptyDict

IsSleepErrorReport(r) ==
    /\ HasKey(r, "error")
    /\ r.recommendations = <<>>
    /\ r.sleep_analysis = <<>>
    /\ r.sleep_patterns = EmptyDict
    /\ r.sleep_quality_metrics = EmptyDict

\* C5: analyze_fitness_data and analyze_sleep_data never raise: when the metrics
\* list is empty, or the input lacks 'metrics' or 'user_id', or a metric lacks a
\* field the scorer reads, each returns its error report (error field, empty
\* recommendation list, empty metrics sections), not a partially computed one.
C5_ScorersReturnErrorReport ==
    /\ (pc \in {"sleep", "sentiment", "direct"} /\ ~IsUnset(fitness_data))
          => /\ ~IsRaised(fitness_data)
             /\ BadInput(health_data, FitnessReads) => IsFitnessErrorReport(fitness_data)
    /\ (pc \in {"sentiment", "direct"} /\ ~IsUnset(sleep_data))
          => /\ ~IsRaised(sleep_data)
             /\ BadInput(health_data, SleepReads) => IsSleepErrorReport(sleep_data)

C5_Witness ==
    /\ pc = "sentiment"
    /\ HasKey(health_data, "metrics")
    /\ health_data.metrics = <<>>
    /\ IsFitnessErrorReport(fitness_data)
    /\ IsSleepErrorReport(sleep_data)

\* C6: normalization rejects invalid input before computing any record: if the
\* raw input lacks user_id, has an empty metrics array, or a metric lacks one of
\* date, steps, heart_rate, sleep_hours, normalize_data fails and produces no
\* normalized records.
C6_InvalidInputRejected ==
    (pc \notin {"normalize", "direct"} /\ ~IsValidRaw(raw_data))
        => IsRaised(health_data) /\ normalized_data = EmptyDict

\* C7: each normalized record's classifications follow the threshold table for
\* every input value, boundaries included: activity_level low < 5000 <= moderate
\* < 10000 <= high; heart_rate_zone resting < 60 <= normal < 100 <= elevated
\* < 120 <= high; sleep quality poor < 5h <= fair < 6h <= good < 7h <= excellent;
\* sleep_adequacy insufficient < 6h <= borderline < 7h <= adequate.
C7_ClassificationTable ==
    (pc \in {"fitness", "sleep", "sentiment", "aggregate", "done"} /\ ~IsRaised(health_data))
        => \A i \in DOMAIN health_data.metrics :
              LET steps == raw_data.metrics[i].steps
                  heart_rate == raw_data.metrics[i].heart_rate
                  sleep_hours == raw_data.metrics[i].sleep_hours
                  out == health_data.metrics[i]
              IN /\ out.derived_metrics.activity_level =
                        CASE steps < 5000 -> "low"
                          [] 5000 <= steps /\ steps < 10000 -> "moderate"
                          [] steps >= 10000 -> "high"
                 /\ out.derived_metrics.heart_rate_zone =
                        CASE heart_rate < 60 -> "resting"
                          [] 60 <= heart_rate /\ heart_rate < 100 -> "normal"
                          [] 100 <= heart_rate /\ heart_rate < 120 -> "elevated"
                          [] heart_rate >= 120 -> "high"
                 /\ out.sleep.quality_score =
                        CASE sleep_hours < 500 -> "poor"
                          [] 500 <= sleep_hours /\ sleep_hours < 600 -> "fair"
                          [] 600 <= sleep_hours /\ sleep_hours < 700 -> "good"
                          [] sleep_hours >= 700 -> "excellent"
                 /\ out.derived_metrics.sleep_adequacy =
                        CASE sleep_hours < 600 -> "insufficient"
                          [] 600 <= sleep_hours /\ sleep_hours < 700 -> "borderline"
                          [] sleep_hours >= 700 -> "adequate"

C7_Witness ==
    /\ pc = "fitness"
    /\ IsValidRaw(raw_data)
    /\ raw_data.metrics[1].steps = 10000
    /\ health_data.metrics[1].derived_metrics.activity_level = "high"

----------------------------------------------------------------------------
(* Properties of the callers on shared instances (specification SpecShared) *)

\* C8: normalize_data is idempotent on its record output: every call with a raw
\* input yields the same sequence of normalized metric records as the first call
\* with that input did, on the same or on a fresh integrator, at any time and
\* with any other calls in between.
C8_NormalizeIdempotent ==
    last_call.op = "normalize_data"
        => RecordOutput(last_call.ret) = first_norm[last_call.user][last_call.choice]

C8_Witness ==
    /\ last_call.op = "normalize_data"
    /\ last_call.repeated
    /\ ~IsRaised(last_call.ret)
    /\ last_call.ret.last_updated > 0
    /\ \E u \in Users \ {last_call.user} : ~IsUnset(held[u])

StoredAlone(u) == IF IsUnset(held[u]) THEN EmptyDict ELSE held[u]

\* what a call returns on instances no other call has touched
ReturnsAlone(call) ==
    CASE call.op = "normalize_data" -> normalize_data(EmptyDict, call.arg, call.at).ret
      [] call.op = "analyze_fitness_data" -> analyze_fitness_data(call.arg, call.at)
      [] call.op = "analyze_sleep_data" -> analyze_sleep_data(call.arg, call.at)
      [] call.op = "aggregate_insights" ->
             aggregate_insights(call.arg[1], call.arg[2], call.arg[3], call.at)

ComputeCalls ==
    {"normalize_data", "analyze_fitness_data", "analyze_sleep_data", "aggregate_insights"}

----------------------------------------------------------------------------
(* Properties of single calls (specification SpecUnits) *)

AggregateCalled == last_call # NoCall /\ last_call.op = "aggregate_insights"

\* C11: for any inputs, sections absent included, the priority_recommendations
\* list aggregate_insights returns holds no two entries with the same
\* (category, priority) pair.
C11_NoDuplicateRecommendations ==
    AggregateCalled =>
        LET recs == last_call.ret.priority_recommendations
        IN \A i, j \in DOMAIN recs :
              i # j => <<recs[i].category, recs[i].priority>>
                          # <<recs[j].category, recs[j].priority>>

C11_Witness ==
    /\ AggregateCalled
    /\ Len(last_call.ret.priority_recommendations) = 3

PriorityRank(p) == CASE p = "high" -> 1 [] p = "medium" -> 2 [] p = "low" -> 3

C13_FitnessScoreFormula ==
    (last_call # NoCall /\ last_call.op = "calculate_fitness_score") =>
        LET n == Len(last_call.arg[1])
            S == SumSeq(last_call.arg[1])
            H == SumSeq(last_call.arg[2])
            a == IF S < 10000 * n THEN S ELSE 10000 * n
            b == IF 220 * n - 2 * H > 0 THEN 220 * n - 2 * H ELSE 0
        IN last_call.ret = Rat(a + 100 * b, 200 * n)

C13_Witness ==
    /\ last_call # NoCall
    /\ last_call.op = "calculate_fitness_score"
    /\ last_call.arg = <<<<8000, 9500, 8500>>, <<70, 72, 75>>>>
    /\ last_call.ret = Int2Num(81)

\* C14: sleep_debt is the sum over the days of max(0, 7.5 - duration): each
\* day shorter than 7.5 hours adds its shortfall, every other day adds
\* nothing.  It is never negative, and the debt of a series with one more
\* day appended is never smaller than the debt of the series before.
C14_SleepDebtAccumulates ==
    (last_call # NoCall /\ last_call.op = "calculate_sleep_debt") =>
        LET durations == last_call.arg
            short == SelectSeq(durations, LAMBDA d : d < 750)
        IN /\ last_call.ret = Rat(750 * Len(short) - SumSeq(short), 100)
           /\ Ge(last_call.ret, Int2Num(0))
           /\ HasKey(last_call, "before") => Ge(last_call.ret, last_call.before)

C14_Witness ==
    /\ last_call # NoCall
    /\ last_call.op = "calculate_sleep_debt"
    /\ HasKey(last_call, "before")
    /\ last_call.arg = <<600, 1000>>
    /\ last_call.before = Rat(150, 100)
    /\ last_call.ret = last_call.before

\* C15: wellness_score is the sum, over the sections present in the reports,
\* of fitness_score * 0.4, sleep_score * 0.35 and positive_percentage * 0.25;
\* an absent section adds nothing.  With the three scores in [0, 100] and at
\* least one section absent the result is below 100, and it is 0 when no
\* section is present.
C15_WellnessIsWeightedSumOfPresent ==
    (last_call # NoCall /\ last_call.op = "calculate_wellness_score") =>
        LET fitness == last_call.arg[1]
            sleep == last_call.arg[2]
            sentiment == last_call.arg[3]
            hasF == "performance_metrics" \in DOMAIN fitness
            hasS == "sleep_quality_metrics" \in DOMAIN sleep
            hasM == "summary" \in DOMAIN sentiment
            \* the unit reports carry whole-number scores (c = 1, b = 0)
            F == IF hasF THEN fitness.performance_metrics.fitness_score.a ELSE 0
            S == IF hasS THEN sleep.sleep_quality_metrics.sleep_score.a ELSE 0
            M == IF hasM
                 THEN sentiment.summary.sentiment_distribution.positive_percentage.a
                 ELSE 0
        IN /\ last_call.ret = Rat(40 * F + 35 * S + 25 * M, 100)
           /\ (~hasF \/ ~hasS \/ ~hasM) => Lt(last_call.ret, Int2Num(100))
           /\ (~hasF /\ ~hasS /\ ~hasM) => last_call.ret = Int2Num(0)

C15_Witness ==
    /\ last_call # NoCall
    /\ last_call.op = "calculate_wellness_score"
    /\ ~HasKey(last_call.arg[1], "performance_metrics")
    /\ HasKey(last_call.arg[2], "sleep_quality_metrics")
    /\ last_call.arg[2].sleep_quality_metrics.sleep_score = Int2Num(100)
    /\ HasKey(last_call.arg[3], "summary")
    /\ last_call.arg[3].summary.sentiment_distribution.positive_percentage = Int2Num(100)
    /\ last_call.ret = Int2Num(60)

\* C16: consistency_score (and the sleep agent's duration consistency) is 1.0
\* for a series of fewer than two values and 1 - stdev / mean otherwise, and
\* for every series of non-negative values, a series whose mean is 0
\* included, the result is a defined number (not NaN).
C16_ConsistencyIsDefined ==
    (last_call # NoCall
     /\ last_call.op \in {"calculate_consistency_score", "calculate_consistency"}) =>
        /\ Len(last_call.arg) < 2 => last_call.ret = Int2Num(1)
        /\ ~IsNaN(last_call.ret)

SleepRecommendationsCalled ==
    last_call # NoCall /\ last_call.op = "generate_sleep_recommendations"

\* C17 (as stated): for every sleep entry, whatever its duration and quality
\* label, the per-day recommendation priority is high if duration < 6h or
\* quality is poor; otherwise medium if duration > 9h or quality is fair;
\* otherwise low.
C17_PriorityAsStated ==
    SleepRecommendationsCalled =>
        \A i \in DOMAIN last_call.arg :
            LET duration == last_call.arg[i].sleep_hours
                quality == last_call.arg[i].quality_score
            IN last_call.ret[i].priority =
                  IF duration < 600 \/ quality = "poor" THEN "high"
                  ELSE IF duration > 900 \/ quality = "fair" THEN "medium"
                  ELSE "low"

\* C17 (amended): the duration is looked at before the quality label.  The
\* priority is high exactly for duration < 6h, or a poor night of 6h to 9h;
\* medium exactly for duration > 9h (a poor night included), or a fair night
\* of 6h to 9h; low for a good or excellent night of 6h to 9h.
C17_PriorityDurationFirst ==
    SleepRecommendationsCalled =>
        /\ Len(last_call.ret) = Len(last_call.arg)
        /\ \A i \in DOMAIN last_call.arg :
            LET duration == last_call.arg[i].sleep_hours
                quality == last_call.arg[i].quality_score
                priority == last_call.ret[i].priority
                normal == 600 <= duration /\ duration <= 900
            IN /\ priority \in {"high", "medium", "low"}
               /\ priority = "high" <=> (duration < 600 \/ (normal /\ quality = "poor"))
               /\ priority = "medium" <=> (duration > 900 \/ (normal /\ quality = "fair"))

C17_Witness ==
    /\ SleepRecommendationsCalled
    /\ \E i \in DOMAIN last_call.arg :
          /\ last_call.arg[i].sleep_hours = 901
          /\ last_call.arg[i].quality_score = "poor"
          /\ last_call.ret[i].priority = "medium"

\* C18: each journal entry of a call is labelled from its own compound
\* polarity c alone, whatever the other entries are: positive if c >= 0.05,
\* negative if c <= -0.05, neutral otherwise; every entry gets exactly one of
\* the three labels.
C18_LabelFromOwnCompound ==
    (last_call # NoCall /\ last_call.op = "analyze_journaling_sentiment") =>
        /\ HasKey(last_call.ret, "sentiment_results")
        /\ Len(last_call.ret.sentiment_results) = Len(last_call.arg)
        /\ \A i \in DOMAIN last_call.arg :
              LET c == last_call.arg[i].entry.compound
                  label == last_call.ret.sentiment_results[i].sentiment
              IN /\ label \in {"positive", "negative", "neutral"}
                 /\ label = "positive" <=> c >= 5
                 /\ label = "negative" <=> c <= -5

C18_Witness ==
    /\ last_call # NoCall
    /\ last_call.op = "analyze_journaling_sentiment"
    /\ Len(last_call.arg) = 2
    /\ last_call.arg[1].entry.compound = 5
    /\ last_call.arg[2].entry.compound = -4
    /\ last_call.ret.sentiment_results[1].sentiment = "positive"
    /\ last_call.ret.sentiment_results[2].sentiment = "neutral"

\* C19: an entry carries the tag of emotion E exactly when its lower-cased
\* text has some keyword of E's list at some position; no tag is reported
\* twice, an entry may carry no tag or several, and a text in which "anxious"
\* occurs carries "anxiety".
C19_TagIffKeywordOccurs ==
    (last_call # NoCall /\ last_call.op = "analyze_single_entry") =>
        LET text_lower == lower(last_call.arg.entry.chars)
            tags == last_call.ret.emotions_detected
            Carries(emotion) == \E i \in DOMAIN tags : tags[i] = emotion
            OccursAt(keyword, p) ==
                /\ p + Len(keyword) - 1 <= Len(text_lower)
                /\ \A k \in DOMAIN keyword : text_lower[p + k - 1] = keyword[k]
            Occurs(keyword) == \E p \in DOMAIN text_lower : OccursAt(keyword, p)
        IN /\ \A emotion \in DOMAIN emotion_keywords :
                 Carries(emotion) <=> \E keyword \in emotion_keywords[emotion] : Occurs(keyword)
           /\ \A i, j \in DOMAIN tags : tags[i] = tags[j] => i = j
           /\ \A i \in DOMAIN tags : tags[i] \in DOMAIN emotion_keywords
           /\ Occurs(<<"a", "n", "x", "i", "o", "u", "s">>) => Carries("anxiety")

C19_Witness ==
    /\ last_call # NoCall
    /\ last_call.op = "analyze_single_entry"
    /\ lower(last_call.arg.entry.chars) # last_call.arg.entry.chars
    /\ last_call.ret.emotions_detected = <<"anxiety", "joy", "gratitude">>

\* C20: the intensity of an entry is high if |compound| >= 0.7 or it has at
\* least 3 emotion tags; otherwise medium if |compound| >= 0.4 or it has at
\* least 2 tags; otherwise low.  It is monotone: an entry with a |compound|
\* at least as large and at least as many tags never has a lower intensity.
C20_IntensityRuleAndMonotone ==
    (last_call # NoCall /\ last_call.op = "calculate_emotional_intensity") =>
        LET c == last_call.arg[1]
            tags == Len(last_call.arg[2])
            Level(intensity) == CASE intensity = "low" -> 1
                                  [] intensity = "medium" -> 2
                                  [] intensity = "high" -> 3
            strong == c >= 70 \/ c <= -70 \/ tags >= 3
            mild == c >= 40 \/ c <= -40 \/ tags >= 2
        IN /\ last_call.ret \in {"low", "medium", "high"}
           /\ last_call.ret = "high" <=> strong
           /\ last_call.ret = "medium" <=> (~strong /\ mild)
           /\ HasKey(last_call, "before") => Level(last_call.ret) >= Level(last_call.before)

C20_Witness ==
    /\ last_call # NoCall
    /\ last_call.op = "calculate_emotional_intensity"
    /\ HasKey(last_call, "before")
    /\ last_call.before = "low"
    /\ last_call.arg[1] = -40
    /\ Len(last_call.arg[2]) = 0
    /\ last_call.ret = "medium"

\* C21: the sentiment trend is insufficient_data exactly when there are 3 or
\* fewer entries.  With n > 3 entries, p of the last 3 positive and q of the
\* n - 3 earlier ones positive, it is improving when p/3 exceeds q/(n-3) by
\* more than 0.2, declining when it falls short by more than 0.2, and stable
\* otherwise.
C21_TrendFromLastThree ==
    (last_call # NoCall /\ last_call.op = "calculate_sentiment_trends") =>
        LET n == Len(last_call.arg)
            trend == last_call.ret.trend
            Positive(i) == last_call.arg[i].sentiment = "positive"
            p == Cardinality({i \in 1..n : i > n - 3 /\ Positive(i)})
            q == Cardinality({i \in 1..n : i <= n - 3 /\ Positive(i)})
            e == n - 3
        IN /\ trend = "insufficient_data" <=> n <= 3
           /\ n > 3 =>
                /\ trend \in {"improving", "declining", "stable"}
                /\ trend = "improving" <=> 5 * p * e > 15 * q + 3 * e
                /\ trend = "declining" <=> 5 * p * e < 15 * q - 3 * e

C21_Witness ==
    /\ last_call # NoCall
    /\ last_call.op = "calculate_sentiment_trends"
    /\ Len(last_call.arg) = 4
    /\ last_call.arg[1].sentiment = "positive"
    /\ last_call.arg[4].sentiment = "negative"
    /\ last_call.ret.trend = "declining"

\* improving, declining or stable by the majority among the trends given
Majority(trends) ==
    LET up == Cardinality({i \in DOMAIN trends : trends[i] = "improving"})
        down == Cardinality({i \in DOMAIN trends : trends[i] = "declining"})
    IN IF up > down THEN "improving" ELSE IF down > up THEN "declining" ELSE "stable"

\* C27: in trend_analysis, overall is improving when strictly more domain
\* trends are improving than declining, declining in the opposite case and
\* stable on a tie.  The Fitness Scorer's steps_trend is increasing or
\* decreasing, never improving or declining, so for a report it produced
\* overall is decided by the sleep and mood trends alone.
C27_OverallTrendByMajority ==
    (last_call # NoCall /\ last_call.op = "analyze_trends") =>
        LET fitness == last_call.arg[1]
            trends == last_call.ret
            others == <<trends.sleep, trends.mood>>
            from_scorer == HasKey(fitness, "trends")
                           /\ HasKey(fitness.trends, "heart_rate_trend")
        IN /\ trends.overall =
                 Majority(IF HasKey(fitness, "trends")
                          THEN <<trends.fitness>> \o others ELSE others)
           /\ from_scorer =>
                 /\ trends.fitness \in {"increasing", "decreasing"}
                 /\ trends.overall = Majority(others)

C27_Witness ==
    /\ last_call # NoCall
    /\ last_call.op = "analyze_trends"
    /\ HasKey(last_call.arg[1], "trends")
    /\ HasKey(last_call.arg[1].trends, "heart_rate_trend")
    /\ last_call.ret.fitness = "increasing"
    /\ last_call.ret.sleep = "declining"
    /\ last_call.ret.mood = "stable"
    /\ last_call.ret.overall = "declining"

----------------------------------------------------------------------------
(* Properties of the aggregated result (specification Spec)                *)

Aggregated == pc = "done" /\ ~IsUnset(insights_data)

\* C22: whenever the fitness report carries performance_metrics and the sleep
\* report carries sleep_patterns and sleep_quality_metrics, the
\* correlation_analysis of the aggregated result has a fitness_sleep entry
\* whose strength is strong_positive if fitness_score > 70 and sleep_score >
\* 70, strong_negative if both are < 50, and moderate otherwise (a score that
\* its section does not carry is read as 0).
C22_FitnessSleepCorrelation ==
    (/\ Aggregated
     /\ HasKey(fitness_data, "performance_metrics")
     /\ HasKey(sleep_data, "sleep_patterns")
     /\ HasKey(sleep_data, "sleep_quality_metrics")) =>
        LET fitness_score == Get(fitness_data.performance_metrics, "fitness_score", Int2Num(0))
            sleep_score == Get(sleep_data.sleep_quality_metrics, "sleep_score", Int2Num(0))
            High(x) == Gt(x, Int2Num(70))
            Low(x) == Lt(x, Int2Num(50))
        IN /\ HasKey(insights_data.correlation_analysis, "fitness_sleep")
           /\ insights_data.correlation_analysis.fitness_sleep.strength =
                 IF High(fitness_score) /\ High(sleep_score) THEN "strong_positive"
                 ELSE IF Low(fitness_score) /\ Low(sleep_score) THEN "strong_negative"
                 ELSE "moderate"

C22_Witness ==
    /\ Aggregated
    /\ HasKey(fitness_data, "performance_metrics")
    /\ HasKey(sleep_data, "sleep_patterns")
    /\ HasKey(sleep_data, "sleep_quality_metrics")
    /\ HasKey(fitness_data.performance_metrics, "fitness_score")
    /\ HasKey(sleep_data.sleep_quality_metrics, "sleep_score")
    /\ Lt(fitness_data.performance_metrics.fitness_score, Int2Num(50))
    /\ Lt(sleep_data.sleep_quality_metrics.sleep_score, Int2Num(50))
    /\ insights_data.correlation_analysis.fitness_sleep.strength = "strong_negative"

ThreePhases(plan) ==
    /\ Len(plan) = 3
    /\ plan[1].week = "1" /\ plan[1].focus = "Foundation"
    /\ plan[2].week = "2-4" /\ plan[2].focus = "Building Habits"
    /\ plan[3].week = "2+ months" /\ plan[3].focus = "Optimization"

\* C23 (as stated): the action_plan in the result of aggregate_insights is the
\* same three-phase list (week 1, weeks 2-4, 2+ months, in that order) for
\* every input, so any two calls return equal action_plan values.
C23_ActionPlanSameForEveryInput ==
    Aggregated => ThreePhases(insights_data.action_plan)

\* C23 (amended): the action_plan is the three-phase list for every input on
\* which the aggregation does not fail; the result of a failed aggregation
\* (the one with an error field) has an empty action_plan.
C23_ActionPlanFixedUnlessFailed ==
    Aggregated =>
        IF HasKey(insights_data, "error")
        THEN insights_data.action_plan = <<>>
        ELSE ThreePhases(insights_data.action_plan)

C23_Witness ==
    /\ Aggregated
    /\ HasKey(insights_data, "error")
    /\ ~HasKey(sleep_data, "sleep_quality_metrics")
    /\ insights_data.action_plan = <<>>

Recommends(category) ==
    \E i \in DOMAIN insights_data.priority_recommendations :
        insights_data.priority_recommendations[i].category = category

\* C25: a failed analysis stays visible downstream: when a report passed to
\* aggregate_insights is a scorer's error report (it has an error field), the
\* aggregated result has no priority recommendation for that domain and no
\* correlation entry or holistic insight computed from the error report's
\* empty sections.
C25_FailedAnalysisNotInterpreted ==
    (Aggregated /\ ~HasKey(insights_data, "error")) =>
        /\ HasKey(fitness_data, "error") =>
              /\ ~Recommends("fitness")
              /\ ~HasKey(insights_data.correlation_analysis, "fitness_sleep")
              /\ ~HasKey(insights_data.correlation_analysis, "mood_fitness")
        /\ HasKey(sleep_data, "error") =>
              /\ ~Recommends("sleep")
              /\ ~HasKey(insights_data.correlation_analysis, "fitness_sleep")
        /\ HasKey(sentiment_data, "error") =>
              /\ ~Recommends("mental_health")
              /\ ~HasKey(insights_data.correlation_analysis, "mood_fitness")
        /\ (HasKey(fitness_data, "error") /\ HasKey(sleep_data, "error")) =>
              insights_data.holistic_insights = <<>>

\* C26: for records produced by normalize_data, whose quality label is
\* derived from the duration, the per-day sleep recommendation priority is a
\* function of the duration alone: high exactly when duration < 6h, medium
\* exactly when duration > 9h, low otherwise; no night of 6h to 9h is
\* labelled poor or fair, so those branches never decide.
C26_PriorityFromDurationAlone ==
    (~IsUnset(sleep_data) /\ ~HasKey(sleep_data, "error")) =>
        /\ Len(sleep_data.recommendations) = Len(health_data.metrics)
        /\ \A i \in DOMAIN sleep_data.recommendations :
              LET duration == health_data.metrics[i].sleep.duration_hours
                  quality == health_data.metrics[i].sleep.quality_score
                  priority == sleep_data.recommendations[i].priority
              IN /\ priority = (IF duration < 600 THEN "high"
                                ELSE IF duration > 900 THEN "medium"
                                ELSE "low")
                 /\ (600 <= duration /\ duration <= 900) => quality \notin {"poor", "fair"}

C26_Witness ==
    /\ ~IsUnset(sleep_data)
    /\ ~HasKey(sleep_data, "error")
    /\ \E i \in DOMAIN sleep_data.recommendations :
          /\ health_data.metrics[i].sleep.duration_hours = 600
          /\ health_data.metrics[i].sleep.quality_score = "good"
          /\ sleep_data.recommendations[i].priority = "low"

----------------------------------------------------------------------------
(* Properties of the calling layer (specification SpecApp)                 *)

GenerationOrder ==
    <<"load_mock_data", "normalize_data", "analyze_fitness_data", "analyze_sleep_data",
      "analyze_journaling_sentiment", "aggregate_insights">>

\* C24: in every run of the data generation the steps taken so far are, in
\* this order, load, normalize, fitness analysis, sleep analysis, sentiment
\* analysis, aggregation; the two record analyses receive what normalize
\* returned in this run, aggregation starts only after the three reports of
\* this run exist, and it receives exactly those reports.
C24_StepsInDependencyOrder ==
    LET steps == last_call.steps
        n == Len(steps)
    IN /\ n <= Len(GenerationOrder)
       /\ \A i \in 1..n : steps[i].step = GenerationOrder[i]
       /\ n >= 3 => steps[3].arg.v = steps[2].ret
       /\ n >= 4 => steps[4].arg.v = steps[2].ret
       /\ pc = "app_aggregate" =>
             /\ n = 5
             /\ fitness_data = steps[3].ret
             /\ sleep_data = steps[4].ret
             /\ sentiment_data = steps[5].ret
       /\ n = 6 => steps[6].arg.v = <<steps[3].ret, steps[4].ret, steps[5].ret>>

\* a refresh went through all six steps on a file with no metrics: the
\* fitness report of the run is an error report, and it was aggregated
C24_Witness ==
    /\ last_call.op = "api_refresh"
    /\ Len(last_call.steps) = 6
    /\ last_call.steps[6].ret = insights_data
    /\ HasKey(fitness_data, "error")
    /\ ~HasKey(insights_data, "error")

\* C28: the refresh endpoint answers status success only if the regeneration
\* succeeded: after an api_refresh that returned success, fitness_data,
\* sleep_data, sentiment_data and insights_data hold the reports generated in
\* that run, never the fallback value {error: Data generation failed}.
C28_SuccessMeansRegenerated ==
    (last_call.op = "api_refresh" /\ last_call.status = "success") =>
        LET steps == last_call.steps
            fallback == [error |-> "Data generation failed"]
        IN /\ fallback \notin {fitness_data, sleep_data, sentiment_data, insights_data}
           /\ Len(steps) = Len(GenerationOrder)
           /\ fitness_data = steps[3].ret
           /\ sleep_data = steps[4].ret
           /\ sentiment_data = steps[5].ret
           /\ insights_data = steps[6].ret

----------------------------------------------------------------------------
(* Properties of the user table (specification SpecUsers)                  *)

----------------------------------------------------------------------------
(* Properties of the monitor (specification SpecMonitor)                   *)

\* C30: RealTimeHealthMonitor starts at most one background monitoring
\* thread over its lifetime, for any sequence and any interleaving of
\* start_monitoring and stop_monitoring calls from concurrently handled
\* connections.
C30_AtMostOneMonitorThread == monitor_threads <= 1

====
